---- MODULE Spec2Model ----
(***************************************************************************)
(* A model of the numbered-musical-notation compiler of src/src/nmn.py:    *)
(* exact rational durations, the possible_ends tables, Note.split_note,    *)
(* the duration decoding of Node, parse_time and the melody pipeline of    *)
(* Song (append_time_signature, make_ties_consistent, try_split_notes,     *)
(* merge_melody_lyrics).                                                   *)
(***************************************************************************)
EXTENDS Integers, Sequences, FiniteSets, TLC

VARIABLES
    pc,         \* position of the caller: which operation runs next
    err,        \* the exception raised so far, "none" when there is none
    time,       \* split_note: argument time
    start_beat, \* split_note: argument start_beat
    note,       \* split_note: argument note
    beat,       \* split_note: local beat
    subnotes,   \* split_note: local subnotes, then the returned list
    arg,        \* argument of a pure call (parse_time, Node)
    ret,        \* value returned by a pure call
    key,        \* Song.key
    blocks,     \* load_song: number of append_time_signature calls made
    melody,     \* Song.melody
    lyrics,     \* Song.lyrics
    sections    \* value returned by merge_melody_lyrics

vars == <<pc, err, time, start_beat, note, beat, subnotes, arg, ret,
          key, blocks, melody, lyrics, sections>>

\* the variables of split_note, of the pure calls and of Song
splitVars == <<time, start_beat, note, beat, subnotes>>

callVars == <<arg, ret>>

songVars == <<key, blocks, melody, lyrics, sections>>

(***************************************************************************)
(* Python values.                                                          *)
(***************************************************************************)
\* Python's None and a present value, kept apart from plain integers
None == <<>>

Some(x) == <<x>>

Val(o) == o[1]

\* Let(x, F) is F(x): the value x, computed once, under a local name
Let(x, F(_)) == F(x)

Max(S) == CHOOSE x \in S : \A y \in S : y <= x

Min(S) == CHOOSE x \in S : \A y \in S : x <= y

RECURSIVE Pow2(_)
Pow2(k) == IF k <= 0 THEN 1 ELSE 2 * Pow2(k - 1)

\* int.bit_length()
RECURSIVE BitLength(_)
BitLength(x) == IF x = 0 THEN 0 ELSE 1 + BitLength(x \div 2)

RECURSIVE GCD(_, _)
GCD(a, b) == IF b = 0 THEN a ELSE GCD(b, a % b)

(***************************************************************************)
(* fractions.Fraction: a normalised pair, the denominator positive.        *)
(***************************************************************************)
Fraction(n, d) ==
    LET g == GCD(IF n < 0 THEN -n ELSE n, d)
    IN  [n |-> n \div g, d |-> d \div g]

FInt(k) == [n |-> k, d |-> 1]

FAdd(a, b) == Fraction(a.n * b.d + b.n * a.d, a.d * b.d)

FSub(a, b) == Fraction(a.n * b.d - b.n * a.d, a.d * b.d)

FMul(a, b) == Fraction(a.n * b.n, a.d * b.d)

FLt(a, b) == a.n * b.d < b.n * a.d

FLe(a, b) == a.n * b.d <= b.n * a.d

FMin(a, b) == IF FLe(a, b) THEN a ELSE b

\* a % b for b > 0: a - b * floor(a / b)
FMod(a, b) == FSub(a, FMul(b, FInt((a.n * b.d) \div (a.d * b.n))))

\* int(a) for a >= 0
FTrunc(a) == a.n \div a.d

RECURSIVE FSum(_)
FSum(s) == IF s = <<>> THEN FInt(0) ELSE FAdd(Head(s), FSum(Tail(s)))

(***************************************************************************)
(* Time and Note.                                                          *)
(***************************************************************************)
Time(upper, lower, hyphen) == [upper |-> upper, lower |-> lower, hyphen |-> hyphen]

\* a tie pair, indexed 0 and 1 as in the source
Tie(t0, t1) == (0 :> t0) @@ (1 :> t1)

REST == 0

REST_AT_END == -1

REST_TO_MATCH_LYRICS == -2

\* Note.__init__: lines and dots are None when dashes is None
Note(acc, name, octave, duration, dashes, underlines, dots, tie) ==
    [acc |-> acc, name |-> name, octave |-> octave, duration |-> duration,
     lines |-> IF dashes = None THEN None
               ELSE IF Val(dashes) > 0 THEN dashes ELSE Some(-Val(underlines)),
     dots |-> IF dashes = None THEN None ELSE dots,
     tie |-> tie]

is_rest(nt) == nt.name <= 0

to_match_lyrics(nt) ==
    ~nt.tie[0] /\ (nt.name > 0 \/ nt.name = REST_TO_MATCH_LYRICS)

may_start_new_line(nt) == nt.name # REST_AT_END /\ ~nt.tie[0]

(***************************************************************************)
(* Note.init_possible_ends(n, m): the set of (start, end) pairs it adds,   *)
(* and the table ends[start].                                              *)
(***************************************************************************)
EndsPairsLow(n, m) ==
    LET num == m * Pow2(n)
    IN  UNION {
          UNION {
            LET end == a + Pow2(k)
            IN  {<<a, end>>}
                \cup (IF (a \div Pow2(k)) % 2 = 0 /\ k > 0
                         /\ end + Pow2(k - 1) < num
                      THEN {<<a + Pow2(k - 1), end + Pow2(k - 1)>>}
                      ELSE {})
                \cup (IF (a \div Pow2(k)) % 2 = 1
                      THEN {<<a - (Pow2(k) - Pow2(j)), end>> :
                              j \in {i \in 0..(k - 1) :
                                       a - (Pow2(k) - Pow2(i)) >= 0}}
                      ELSE {<<a, end + (Pow2(k) - Pow2(j))>> :
                              j \in {i \in 0..(k - 1) :
                                       end + (Pow2(k) - Pow2(i)) <= num}})
            : a \in {x \in 0..(num - 1) :
                       x % Pow2(k) = 0 /\ x + Pow2(k) <= num}}
          : k \in 0..(n - 1)}

EndsPairsHigh(n, m) ==
    LET num == m * Pow2(n)
    IN  UNION {
          UNION {
            LET end == a + Pow2(k)
            IN  {<<a, end>>}
                \cup (IF k > 0 /\ end + Pow2(k - 1) < num
                      THEN {<<a + Pow2(k - 1), end + Pow2(k - 1)>>}
                      ELSE {})
                \cup {<<a - (Pow2(k) - Pow2(j)), end>> :
                        j \in {i \in 0..(k - 1) :
                                 a - (Pow2(k) - Pow2(i)) >= 0}}
                \cup {<<a, end + (Pow2(k) - Pow2(j))>> :
                        j \in {i \in 0..(k - 1) :
                                 end + (Pow2(k) - Pow2(i)) <= num}}
            : a \in {x \in 0..(num - 1) :
                       x % Pow2(n) = 0 /\ x + Pow2(k) <= num}}
          : k \in n..(n + BitLength(m) - 1)}

init_possible_ends(n, m) ==
    LET pairs == EndsPairsLow(n, m) \cup EndsPairsHigh(n, m)
    IN  [i \in 0..(m * Pow2(n) - 1) |-> {q[2] : q \in {r \in pairs : r[1] = i}}]

\* the (n, m) grid shapes split_note asks for, over hyphen 4, 8, 16
GridShapes ==
    {<<n, 1>> : n \in 0..4} \cup {<<n, 3>> : n \in 0..2}
    \cup {<<0, 2>>, <<0, 4>>}

\* Note.possible_ends, the class-level cache, once it is filled
possible_ends == [g \in GridShapes |-> init_possible_ends(g[1], g[2])]

(***************************************************************************)
(* Node.__init__: the notation (lines, dots) of a note, decoded from its   *)
(* duration when the note carries none.                                    *)
(***************************************************************************)
\* '{:b}'.format(x).split('0') without the empty strings: the lengths of
\* the runs of ones of x, lowest run first
RECURSIVE OneGroupsFrom(_, _)
OneGroupsFrom(x, run) ==
    IF x = 0 THEN (IF run > 0 THEN <<run>> ELSE <<>>)
    ELSE IF x % 2 = 1 THEN OneGroupsFrom(x \div 2, run + 1)
    ELSE (IF run > 0 THEN <<run>> ELSE <<>>) \o OneGroupsFrom(x \div 2, 0)

one_groups(numerator) == OneGroupsFrom(numerator, 0)

\* DecodeDuration counting every one of the run as a dot
DecodeDuration_DotPerOne(duration) ==
    LET numerator == duration.n
        denominator == duration.d
        n == BitLength(denominator) - 1
        groups == one_groups(numerator)
        m == BitLength(numerator) - 1
    IN  IF duration.n <= 0
        THEN [err |-> "ValueError: duration <= 0", lines |-> None, dots |-> None]
        ELSE IF Pow2(n) # denominator
        THEN [err |-> "ValueError: denominator is not a power of 2",
              lines |-> None, dots |-> None]
        ELSE IF Len(groups) # 1
        THEN [err |-> "ValueError: cannot be represented as a single note",
              lines |-> None, dots |-> None]
        ELSE IF denominator = 1
        THEN [err |-> "none", lines |-> Some(FTrunc(duration) - 1), dots |-> Some(0)]
        ELSE IF m > n
        THEN [err |-> "ValueError: not integral, but too long for a note",
              lines |-> None, dots |-> None]
        ELSE [err |-> "none", lines |-> Some(m - n), dots |-> Some(groups[1])]

\* the decoding branch of Node.__init__: [err, lines, dots]
DecodeDuration(duration) ==
    LET numerator == duration.n
        denominator == duration.d
        n == BitLength(denominator) - 1
        groups == one_groups(numerator)
        m == BitLength(numerator) - 1
    IN  IF duration.n <= 0
        THEN [err |-> "ValueError: duration <= 0", lines |-> None, dots |-> None]
        ELSE IF Pow2(n) # denominator
        THEN [err |-> "ValueError: denominator is not a power of 2",
              lines |-> None, dots |-> None]
        ELSE IF Len(groups) # 1
        THEN [err |-> "ValueError: cannot be represented as a single note",
              lines |-> None, dots |-> None]
        ELSE IF denominator = 1
        THEN [err |-> "none", lines |-> Some(FTrunc(duration) - 1), dots |-> Some(0)]
        ELSE IF m > n
        THEN [err |-> "ValueError: not integral, but too long for a note",
              lines |-> None, dots |-> None]
        ELSE [err |-> "none", lines |-> Some(m - n), dots |-> Some(groups[1] - 1)]

\* Node(note) for a Note: [err, lines, dots]
NodeInit(nt) ==
    IF nt.lines = None \/ nt.dots = None
    THEN DecodeDuration(nt.duration)
    ELSE [err |-> "none", lines |-> nt.lines, dots |-> nt.dots]

(***************************************************************************)
(* Note.split_note.                                                        *)
(***************************************************************************)
\* the grid of a time signature: p, unit, (n, m), (n_unit, m_unit)
SplitGrid(t) ==
    LET p == BitLength(Val(t.hyphen)) - 3
        u == Val(t.upper)
    IN  IF t.lower = 4
        THEN [p |-> p, unit |-> Pow2(p),
              n |-> IF u = 2 THEN p + 1 ELSE IF u = 3 THEN p ELSE p + 2,
              m |-> IF u = 3 THEN 3 ELSE 1,
              n_unit |-> 0, m_unit |-> u,
              known |-> u \in {2, 3, 4}]
        ELSE [p |-> p, unit |-> (3 * Pow2(p)) \div 2,
              n |-> p - 1, m |-> 3,
              n_unit |-> IF u = 12 THEN 2 ELSE 0,
              m_unit |-> IF u = 6 THEN 2 ELSE IF u = 9 THEN 3 ELSE 1,
              known |-> u \in {6, 9, 12}]

\* the checks at the head of split_note
SplitCheck(t) ==
    IF t.hyphen = None THEN "ValueError: no need to split note"
    ELSE IF t.upper = None THEN "ValueError: cannot split note for time ?"
    ELSE IF ~SplitGrid(t).known THEN "ValueError: unknown time.upper"
    ELSE "none"

\* UnitEnds without the 'if e > end: break' test
UnitEnds_NoEndBreak(t, start, end) ==
    LET g == SplitGrid(t)
        ends_unit == possible_ends[<<g.n_unit, g.m_unit>>]
    IN  IF start % g.unit # 0 THEN {}
        ELSE {e \in {e_rel * g.unit : e_rel \in ends_unit[start \div g.unit]} :
                ~(t.lower = 8 /\ e # start + g.unit)}

\* the ends the 'multiple of units' loop accepts from grid position start
UnitEnds(t, start, end) ==
    LET g == SplitGrid(t)
        ends_unit == possible_ends[<<g.n_unit, g.m_unit>>]
    IN  IF start % g.unit # 0 THEN {}
        ELSE {e \in {e_rel * g.unit : e_rel \in ends_unit[start \div g.unit]} :
                /\ e <= end
                /\ ~(t.lower = 8 /\ e # start + g.unit)}

\* DotEnds without the 'length >= unit * 2' / 'length > unit' break
DotEnds_NoLengthBreak(t, start, end) ==
    LET g == SplitGrid(t)
        ends == possible_ends[<<g.n, g.m>>]
        base == start - (start % Pow2(g.n))
    IN  {e \in {base + e_rel : e_rel \in ends[start % Pow2(g.n)]} : e <= end}

\* the ends the 'contains dots' loop accepts from grid position start
DotEnds(t, start, end) ==
    LET g == SplitGrid(t)
        ends == possible_ends[<<g.n, g.m>>]
        base == start - (start % Pow2(g.n))
    IN  {e \in {base + e_rel : e_rel \in ends[start % Pow2(g.n)]} :
           /\ e <= end
           /\ ~(t.lower = 4 /\ e - start >= g.unit * 2)
           /\ ~(t.lower = 8 /\ e - start > g.unit)}

LegalEnds(t, start, end) == UnitEnds(t, start, end) \cup DotEnds(t, start, end)

\* SubEnd keeping the nearest end instead of the farthest
SubEnd_Nearest(t, start, end) == Min(LegalEnds(t, start, end))

\* subend: the farthest end the two loops leave in subend
SubEnd(t, start, end) == Max(LegalEnds(t, start, end))

\* SplitIter leaving beat where it was
SplitIter_KeepsBeat(t, sb, nt, bt, subs) ==
    LET g == SplitGrid(t)
        start == FTrunc(FMul(bt, FInt(Pow2(g.p))))
        total == FAdd(sb, nt.duration)
        end == FTrunc(FMul(total, FInt(Pow2(g.p))))
        ends_unit == possible_ends[<<g.n_unit, g.m_unit>>]
    IN  IF start % g.unit = 0 /\ (start \div g.unit) \notin DOMAIN ends_unit
        THEN [err |-> "IndexError", beat |-> bt, subnotes |-> subs]
        ELSE IF LegalEnds(t, start, end) = {}
        THEN [err |-> "ValueError: cannot find ending point",
              beat |-> bt, subnotes |-> subs]
        ELSE
          LET subend == SubEnd(t, start, end)
              end_beat == Fraction(subend, Pow2(g.p))
              first == (subs = <<>>)
              subnote ==
                  [nt EXCEPT
                     !.duration = FSub(end_beat, bt),
                     !.tie = IF first
                             THEN Tie(nt.tie[0], nt.tie[1] \/ end_beat # total)
                             ELSE Tie(TRUE, nt.tie[1]),
                     !.name = IF ~first /\ nt.name = REST_TO_MATCH_LYRICS
                              THEN REST ELSE nt.name]
          IN  [err |-> "none", beat |-> bt,
               subnotes |-> Append(subs, subnote)]

\* one pass of the while loop of split_note: [err, beat, subnotes]
SplitIter(t, sb, nt, bt, subs) ==
    LET g == SplitGrid(t)
        start == FTrunc(FMul(bt, FInt(Pow2(g.p))))
        total == FAdd(sb, nt.duration)
        end == FTrunc(FMul(total, FInt(Pow2(g.p))))
        ends_unit == possible_ends[<<g.n_unit, g.m_unit>>]
    IN  IF start % g.unit = 0 /\ (start \div g.unit) \notin DOMAIN ends_unit
        THEN [err |-> "IndexError", beat |-> bt, subnotes |-> subs]
        ELSE IF LegalEnds(t, start, end) = {}
        THEN [err |-> "ValueError: cannot find ending point",
              beat |-> bt, subnotes |-> subs]
        ELSE
          LET subend == SubEnd(t, start, end)
              end_beat == Fraction(subend, Pow2(g.p))
              first == (subs = <<>>)
              subnote ==
                  [nt EXCEPT
                     !.duration = FSub(end_beat, bt),
                     !.tie = IF first
                             THEN Tie(nt.tie[0], nt.tie[1] \/ end_beat # total)
                             ELSE Tie(TRUE, nt.tie[1]),
                     !.name = IF ~first /\ nt.name = REST_TO_MATCH_LYRICS
                              THEN REST ELSE nt.name]
          IN  [err |-> "none", beat |-> end_beat,
               subnotes |-> Append(subs, subnote)]

\* SplitTies without the branch that clears the ties of a rest
SplitTies_NoRestBranch(nt, subs) ==
    [i \in 1..Len(subs) |->
       [subs[i] EXCEPT
          !.tie = Tie(subs[i].tie[0] \/ i > 1,
                      subs[i].tie[1] \/ i < Len(subs))]]

\* the closing loop of split_note over the subnotes
SplitTies(nt, subs) ==
    [i \in 1..Len(subs) |->
       [subs[i] EXCEPT
          !.tie = IF is_rest(nt) THEN Tie(FALSE, FALSE)
                  ELSE Tie(subs[i].tie[0] \/ i > 1,
                           subs[i].tie[1] \/ i < Len(subs))]]

\* the while loop of split_note run to its end: [err, subnotes]
RECURSIVE SplitLoop(_, _, _, _, _)
SplitLoop(t, sb, nt, bt, subs) ==
    IF ~FLt(bt, FAdd(sb, nt.duration))
    THEN [err |-> "none", subnotes |-> SplitTies(nt, subs)]
    ELSE Let(SplitIter(t, sb, nt, bt, subs), LAMBDA r :
           IF r.err # "none" THEN [err |-> r.err, subnotes |-> <<>>]
           ELSE SplitLoop(t, sb, nt, r.beat, r.subnotes))

\* Note.split_note(time, start_beat, note): [err, subnotes]
split_note(t, sb, nt) ==
    IF SplitCheck(t) # "none" THEN [err |-> SplitCheck(t), subnotes |-> <<>>]
    ELSE SplitLoop(t, sb, [nt EXCEPT !.lines = None, !.dots = None], sb, <<>>)

(***************************************************************************)
(* Specification SpecSplit: split_note called on one note of a bar.        *)
(***************************************************************************)
Meters == {<<2, 4>>, <<3, 4>>, <<4, 4>>, <<6, 8>>, <<9, 8>>, <<12, 8>>}

Hyphens == {4, 8, 16}

\* the fixed meters with a hyphen grid, as parse_time returns them
HyphenTimes ==
    UNION {{Time(Some(mt[1]), mt[2], Some(h)) :
              h \in {x \in Hyphens : x >= mt[2]}} : mt \in Meters}

\* Song.append_time_signature: time_duration of a fixed meter
TimeDuration(t) ==
    IF t.lower = 4 THEN FInt(Val(t.upper)) ELSE Fraction(Val(t.upper), 2)

\* beats that are multiples of half a grid step, inside one bar
HalfGridBeats(t) ==
    LET den == 2 * Pow2(BitLength(Val(t.hyphen)) - 3)
    IN  {Fraction(i, den) : i \in 0..(FTrunc(FMul(TimeDuration(t), FInt(den))))}

OnGrid(t, x) ==
    FMul(x, FInt(Pow2(BitLength(Val(t.hyphen)) - 3))).d = 1

\* the notes split_note is tried on: a pitch with every tie pair, and the
\* three rests without ties and with both ties written
SplitNotes(d) ==
    {Note(None, 1, 0, d, None, None, None, Tie(t0, t1)) : t0, t1 \in BOOLEAN}
    \cup {Note(None, nm, 0, d, None, None, None, Tie(b, b)) :
            nm \in {REST, REST_AT_END, REST_TO_MATCH_LYRICS}, b \in BOOLEAN}

InitSplit ==
    /\ pc = "split_note"
    /\ err = "none"
    /\ \/ /\ time \in HyphenTimes
          /\ start_beat \in HalfGridBeats(time)
          /\ \E d \in HalfGridBeats(time) :
               /\ d.n > 0
               /\ FLe(FAdd(start_beat, d), TimeDuration(time))
               /\ note \in SplitNotes(d)
       \/ /\ time \in {Time(None, 4, Some(4)), Time(Some(4), 4, None)}
          /\ start_beat = FInt(0)
          /\ note \in SplitNotes(FInt(1))
    /\ beat = FInt(0)
    /\ subnotes = <<>>
    /\ arg = None
    /\ ret = None
    /\ key = None
    /\ blocks = 0
    /\ melody = <<>>
    /\ lyrics = <<>>
    /\ sections = <<>>

\* split_note up to the while loop
SplitEnter ==
    /\ pc = "split_note"
    /\ IF SplitCheck(time) # "none"
       THEN /\ pc' = "raised"
            /\ err' = SplitCheck(time)
            /\ UNCHANGED <<note, beat, subnotes>>
       ELSE /\ pc' = "while"
            /\ note' = [note EXCEPT !.lines = None, !.dots = None]
            /\ beat' = start_beat
            /\ subnotes' = <<>>
            /\ UNCHANGED err
    /\ UNCHANGED <<time, start_beat, callVars, songVars>>

\* one pass of the while loop
SplitIterate ==
    /\ pc = "while"
    /\ FLt(beat, FAdd(start_beat, note.duration))
    /\ LET r == SplitIter(time, start_beat, note, beat, subnotes)
       IN  IF r.err # "none"
           THEN /\ pc' = "raised"
                /\ err' = r.err
                /\ UNCHANGED <<beat, subnotes>>
           ELSE /\ beat' = r.beat
                /\ subnotes' = r.subnotes
                /\ UNCHANGED <<pc, err>>
    /\ UNCHANGED <<time, start_beat, note, callVars, songVars>>

\* the closing loop over the subnotes, and the return
SplitReturn ==
    /\ pc = "while"
    /\ ~FLt(beat, FAdd(start_beat, note.duration))
    /\ subnotes' = SplitTies(note, subnotes)
    /\ pc' = "returned"
    /\ UNCHANGED <<err, time, start_beat, note, beat, callVars, songVars>>

NextSplit == SplitEnter \/ SplitIterate \/ SplitReturn

SpecSplit == InitSplit /\ [][NextSplit]_vars

Durations(notes) == [i \in 1..Len(notes) |-> notes[i].duration]

\* C3: when split_note returns, the pieces follow one another from the note's
\* start beat (beat is the start beat plus the durations so far), each piece
\* has a duration > 0 and the durations sum exactly to the note's duration.
C3_SumExact ==
    /\ pc \in {"while", "returned"} =>
         /\ beat = FAdd(start_beat, FSum(Durations(subnotes)))
         /\ \A i \in 1..Len(subnotes) : subnotes[i].duration.n > 0
    /\ pc = "returned" => FSum(Durations(subnotes)) = note.duration

C3_Witness == pc = "returned" /\ Len(subnotes) >= 3

\* C4: every piece split_note returns for a note that starts and ends on the
\* hyphen grid has a duration Node decodes as a single note.
C4_PiecesDecode ==
    (pc = "returned" /\ OnGrid(time, start_beat) /\ OnGrid(time, note.duration))
      => \A i \in 1..Len(subnotes) : NodeInit(subnotes[i]).err = "none"

C4_Witness ==
    /\ pc = "returned" /\ OnGrid(time, start_beat) /\ OnGrid(time, note.duration)
    /\ Len(subnotes) >= 2
    /\ \E i \in 1..Len(subnotes) : Val(NodeInit(subnotes[i]).dots) > 0

\* the grid positions reachable from position s in at most k legal spans
\* that do not pass position e
RECURSIVE ReachWithin(_, _, _, _)
ReachWithin(t, s, e, k) ==
    IF k = 0 THEN {s}
    ELSE LET R == ReachWithin(t, s, e, k - 1)
         IN  R \cup UNION {LegalEnds(t, x, e) : x \in {y \in R : y < e}}

GridPos(t, x) == FTrunc(FMul(x, FInt(Pow2(BitLength(Val(t.hyphen)) - 3))))

\* C5: the run split_note returns is a shortest one: no chain of fewer legal
\* spans leads from the note's start to its end.
C5_FewestPieces ==
    (pc = "returned" /\ OnGrid(time, start_beat) /\ OnGrid(time, note.duration))
      => GridPos(time, FAdd(start_beat, note.duration))
           \notin ReachWithin(time, GridPos(time, start_beat),
                              GridPos(time, FAdd(start_beat, note.duration)),
                              Len(subnotes) - 1)

C5_Witness ==
    /\ pc = "returned" /\ OnGrid(time, start_beat) /\ OnGrid(time, note.duration)
    /\ Len(subnotes) = 3
    /\ Cardinality(LegalEnds(time, GridPos(time, start_beat),
                             GridPos(time, FAdd(start_beat, note.duration)))) >= 2

\* C9: the pieces of a pitched note are tied in sequence and keep the note's
\* outer ties; the pieces of a rest carry no tie.
C9_PiecesTied ==
    pc = "returned" =>
      \A i \in 1..Len(subnotes) :
        IF is_rest(note)
        THEN subnotes[i].tie = Tie(FALSE, FALSE)
        ELSE /\ subnotes[i].tie[0] = (IF i = 1 THEN note.tie[0] ELSE TRUE)
             /\ subnotes[i].tie[1] =
                  (IF i = Len(subnotes) THEN note.tie[1] ELSE TRUE)

C9_Witness ==
    /\ pc = "returned" /\ Len(subnotes) >= 3
    /\ ~is_rest(note) /\ note.tie = Tie(FALSE, FALSE)

(***************************************************************************)
(* parse_pitch(key, s).  A pitch token is the three groups the regular     *)
(* expression of parse_pitch matches: an accidental symbol or "", one name *)
(* character, and the sequence of octave marks.                            *)
(***************************************************************************)
Pitch(acc, name, marks) == [acc |-> acc, name |-> name, marks |-> marks]

\* a movable key (tonic, accidental, signature table), the mode 'solfa', and
\* the key None of a Song that has read no <key> line
SolfaKey == [solfa |-> TRUE, tuple |-> <<>>]

NoKey == [solfa |-> FALSE, tuple |-> <<>>]

MovableKey(tuple) == [solfa |-> FALSE, tuple |-> tuple]

key_dict ==
    ("A" :> 6) @@ ("B" :> 7) @@ ("C" :> 1) @@ ("D" :> 2) @@ ("E" :> 3)
    @@ ("F" :> 4) @@ ("G" :> 5)

extended_upper_name_dict ==
    ("q" :> 1) @@ ("w" :> 2) @@ ("e" :> 3) @@ ("r" :> 4) @@ ("t" :> 5)
    @@ ("y" :> 6) @@ ("u" :> 7) @@ ("8" :> 1) @@ ("9" :> 2)

extended_lower_name_dict ==
    ("z" :> 1) @@ ("x" :> 2) @@ ("c" :> 3) @@ ("v" :> 4) @@ ("b" :> 5)
    @@ ("n" :> 6) @@ ("m" :> 7)

acc_dict == ("" :> None) @@ ("#" :> Some(1)) @@ ("$" :> Some(-1)) @@ ("%" :> Some(0))

\* int(name) for name in '1234567'
DegreeDigit ==
    ("1" :> 1) @@ ("2" :> 2) @@ ("3" :> 3) @@ ("4" :> 4) @@ ("5" :> 5)
    @@ ("6" :> 6) @@ ("7" :> 7)

\* name.upper() for the letters of 'cdefgabCDEFGAB'
UpperLetter ==
    ("c" :> "C") @@ ("d" :> "D") @@ ("e" :> "E") @@ ("f" :> "F")
    @@ ("g" :> "G") @@ ("a" :> "A") @@ ("b" :> "B")
    @@ [x \in DOMAIN key_dict |-> x]

\* octave.count(ch)
RECURSIVE Count(_, _)
Count(sq, ch) ==
    IF sq = <<>> THEN 0
    ELSE (IF Head(sq) = ch THEN 1 ELSE 0) + Count(Tail(sq), ch)

PitchResult(e, acc, name, octave) ==
    [err |-> e, acc |-> acc, name |-> name, octave |-> octave]

\* the assertions that close parse_pitch
PitchAsserts(acc, name, octave) ==
    IF acc \notin {None, Some(-1), Some(0), Some(1)}
       \/ octave \notin {-1, 0, 1}
    THEN PitchResult("AssertionError", acc, name, octave)
    ELSE PitchResult("none", acc, name, octave)

\* the octave of a pitch class written in a key: one lower below the tonic
\* of a key up to #F major, one higher from the tonic on of a key from G major
KeyOctave_NoCorrection(tonic, name, octave) == octave

KeyOctave(tonic, name, octave) ==
    IF tonic <= 4
    THEN (IF name < tonic THEN octave - 1 ELSE octave)
    ELSE (IF name >= tonic THEN octave + 1 ELSE octave)

\* name = (name - key[0]) % 7 + 1
KeyDegree_Direct(tonic, name) == name

KeyDegree(tonic, name) == ((name - tonic) % 7) + 1

\* parse_pitch in a movable key
ParseMovable(k, tok, acc, octave) ==
    IF tok.name \notin DOMAIN DegreeDigit \cup DOMAIN UpperLetter
    THEN PitchResult("ValueError: not allowed in key", acc, 0, octave)
    ELSE
      LET name == IF tok.name \in DOMAIN DegreeDigit THEN DegreeDigit[tok.name]
                  ELSE key_dict[UpperLetter[tok.name]]
      IN  IF k.tuple = <<>>
          THEN PitchResult("TypeError", acc, name, octave)
          ELSE IF acc # None /\ Len(k.tuple) < 3
          THEN PitchResult("IndexError", acc, name, octave)
          ELSE PitchAsserts(IF acc = None THEN None
                            ELSE Some(Val(acc) - k.tuple[3][name]),
                            KeyDegree(k.tuple[1], name),
                            KeyOctave(k.tuple[1], name, octave))

\* parse_pitch in the key 'solfa'
ParseSolfa_NoOctaveShift(tok, acc, octave) ==
    IF tok.name \in DOMAIN DegreeDigit
    THEN PitchAsserts(acc, DegreeDigit[tok.name], octave)
    ELSE IF tok.name \in DOMAIN extended_upper_name_dict
    THEN PitchAsserts(acc, extended_upper_name_dict[tok.name], octave)
    ELSE IF tok.name \in DOMAIN extended_lower_name_dict
    THEN PitchAsserts(acc, extended_lower_name_dict[tok.name], octave)
    ELSE PitchResult("ValueError: not allowed in <key> solfa", acc, 0, octave)

ParseSolfa(tok, acc, octave) ==
    IF tok.name \in DOMAIN DegreeDigit
    THEN PitchAsserts(acc, DegreeDigit[tok.name], octave)
    ELSE IF tok.name \in DOMAIN extended_upper_name_dict
    THEN PitchAsserts(acc, extended_upper_name_dict[tok.name], octave + 1)
    ELSE IF tok.name \in DOMAIN extended_lower_name_dict
    THEN PitchAsserts(acc, extended_lower_name_dict[tok.name], octave - 1)
    ELSE PitchResult("ValueError: not allowed in <key> solfa", acc, 0, octave)

\* parse_pitch(key, s): [err, acc, name, octave]
parse_pitch_RestKeepsMarks(k, tok) ==
    LET acc == acc_dict[tok.acc]
        octave == Count(tok.marks, "'") - Count(tok.marks, ",")
    IN  IF tok.name = "0" THEN PitchAsserts(acc, REST, octave)
        ELSE IF tok.name = "o" THEN PitchAsserts(acc, REST_AT_END, octave)
        ELSE IF tok.name = "O"
        THEN PitchAsserts(acc, REST_TO_MATCH_LYRICS, octave)
        ELSE IF k.solfa THEN ParseSolfa(tok, acc, octave)
        ELSE ParseMovable(k, tok, acc, octave)

parse_pitch(k, tok) ==
    LET acc == acc_dict[tok.acc]
        octave == Count(tok.marks, "'") - Count(tok.marks, ",")
    IN  IF tok.name = "0" THEN PitchResult("none", None, REST, 0)
        ELSE IF tok.name = "o" THEN PitchResult("none", None, REST_AT_END, 0)
        ELSE IF tok.name = "O"
        THEN PitchResult("none", None, REST_TO_MATCH_LYRICS, 0)
        ELSE IF k.solfa THEN ParseSolfa(tok, acc, octave)
        ELSE ParseMovable(k, tok, acc, octave)

(***************************************************************************)
(* Song.append_time_signature(time, s).  The text s is the list of its     *)
(* bars (s.split('|')), a bar the list of the tokens re.findall matches:   *)
(* (tie0, pitches, duration, tie1), the duration given by its marks.       *)
(***************************************************************************)
Token(tie0, pitches, bracket, dashes, underlines, dots, triplet, tie1) ==
    [tie0 |-> tie0, pitches |-> pitches, bracket |-> bracket,
     dashes |-> dashes, underlines |-> underlines, dots |-> dots,
     triplet |-> triplet, tie1 |-> tie1]

\* a bar of Song.melody: (time, start_beat, notes); text records which call
\* and which bar text created it and is read by no operation
Bar(t, bt, notes, text) == [time |-> t, beat |-> bt, notes |-> notes, text |-> text]

\* load_song before any <time> line: time is None
NoTime == Time(None, 0, None)

\* the duration a notation denotes
NotationDuration(dashes, underlines, dots, triplet) ==
    FMul(FMul(Fraction(dashes + 1, Pow2(underlines)),
              FSub(FInt(2), Fraction(1, Pow2(dots)))),
         IF triplet THEN Fraction(2, 3) ELSE FInt(1))

\* the notes of the pitches of one token, tied as the token is
RECURSIVE PitchNotes(_, _, _, _, _, _, _)
PitchNotes(k, tok, duration, dashes, underlines, dots, i) ==
    IF i > Len(tok.pitches) THEN [err |-> "none", notes |-> <<>>]
    ELSE
      Let(parse_pitch(k, tok.pitches[i]), LAMBDA pp :
        IF pp.err # "none" THEN [err |-> pp.err, notes |-> <<>>]
        ELSE
          Let(PitchNotes(k, tok, duration, dashes, underlines, dots, i + 1),
              LAMBDA rest :
            IF rest.err # "none" THEN rest
            ELSE [err |-> "none",
                  notes |-> <<Note(pp.acc, pp.name, pp.octave, duration, dashes,
                                   underlines, dots,
                                   Tie(tok.tie0 /\ i = 1,
                                       tok.tie1 /\ i = Len(tok.pitches)))>>
                            \o rest.notes]))

\* the notes of one token: [err, notes]
TokenNotes(k, t, tok) ==
    IF tok.dashes > 0 /\ tok.underlines > 0
    THEN [err |-> "ValueError: wrong format", notes |-> <<>>]
    ELSE IF t.hyphen # None /\ ~tok.bracket
    THEN IF tok.dots > 0 \/ tok.underlines > 0 \/ tok.triplet
         THEN [err |-> "ValueError: not allowed without brackets", notes |-> <<>>]
         ELSE PitchNotes(k, tok, Fraction(tok.dashes + 1, Val(t.hyphen) \div 4),
                         None, None, None, 1)
    ELSE PitchNotes(k, tok,
                    NotationDuration(tok.dashes, tok.underlines, tok.dots,
                                     tok.triplet),
                    Some(tok.dashes), Some(tok.underlines), Some(tok.dots), 1)

\* the note_list of one bar text: [err, notes]
RECURSIVE BarNotes(_, _, _)
BarNotes(k, t, bar) ==
    IF bar = <<>> THEN [err |-> "none", notes |-> <<>>]
    ELSE Let(TokenNotes(k, t, Head(bar)), LAMBDA r :
           IF r.err # "none" THEN r
           ELSE Let(BarNotes(k, t, Tail(bar)), LAMBDA rest :
                  IF rest.err # "none" THEN rest
                  ELSE [err |-> "none", notes |-> r.notes \o rest.notes]))

\* SubDuration without the cap at the room left in the bar
SubDuration_NoCap(remaining, T, bt) == remaining

\* sub_duration of the piece placed at beat bt
SubDuration(remaining, T, bt) == FMin(remaining, FSub(T, bt))

\* the while loop that places one note: [err, melody, beat]
RECURSIVE PlacePieces(_, _, _, _, _, _, _, _)
PlacePieces(mel, t, T, bt, nt, remaining, first, text) ==
    IF remaining.n <= 0 THEN [err |-> "none", melody |-> mel, beat |-> bt]
    ELSE
      Let(IF bt = FInt(0) THEN Append(mel, Bar(t, bt, <<>>, text)) ELSE mel,
          LAMBDA mel1 :
        Let(SubDuration(remaining, T, bt), LAMBDA sub :
          IF t.hyphen = None /\ sub # remaining
          THEN [err |-> "ValueError: goes beyond one bar", melody |-> mel1,
                beat |-> bt]
          ELSE
            Let(FAdd(bt, sub), LAMBDA bt1 :
              PlacePieces(
                [mel1 EXCEPT ![Len(mel1)].notes =
                    Append(@, [nt EXCEPT !.duration = sub,
                                         !.tie = IF first THEN nt.tie
                                                 ELSE Tie(TRUE, nt.tie[1])])],
                t, T, IF bt1 = T THEN FInt(0) ELSE bt1, nt,
                FSub(remaining, sub), FALSE, text))))

\* the loop over note_list: [err, melody, beat]
RECURSIVE PlaceNotes(_, _, _, _, _, _)
PlaceNotes(mel, t, T, bt, notes, text) ==
    IF notes = <<>> THEN [err |-> "none", melody |-> mel, beat |-> bt]
    ELSE Let(PlacePieces(mel, t, T, bt, Head(notes), Head(notes).duration,
                         TRUE, text),
             LAMBDA r :
           IF r.err # "none" THEN r
           ELSE PlaceNotes(r.melody, t, T, r.beat, Tail(notes), text))

\* time_duration of a bar text whose notes last bar_duration
BarCapacity(t, bar_duration) ==
    IF t.upper = None THEN bar_duration ELSE TimeDuration(t)

\* every bar text starts at beat 0, the first one too
FirstBeat_AlwaysZero(T, bar_duration, i, nbars) == FInt(0)

\* the beat at which the notes of bar text i (counted from 1) start
FirstBeat(T, bar_duration, i, nbars) ==
    IF i = 1 /\ nbars > 1
    THEN FMod(FSub(T, FMod(bar_duration, T)), T)
    ELSE FInt(0)

\* '# append to self.melody' for the note_list of bar text i: [err, melody]
PlaceBar(mel, t, note_list, i, nbars, blk) ==
    Let(FSum(Durations(note_list)), LAMBDA bar_duration :
      Let(BarCapacity(t, bar_duration), LAMBDA T :
        Let(FirstBeat(T, bar_duration, i, nbars), LAMBDA bt :
          Let(PlaceNotes(IF bt.n > 0 THEN Append(mel, Bar(t, bt, <<>>, <<blk, i>>))
                         ELSE mel,
                         t, T, bt, note_list, <<blk, i>>),
              LAMBDA r : [err |-> r.err, melody |-> r.melody]))))

\* the loop over the bar texts from text i on: [err, melody]
RECURSIVE AppendBars(_, _, _, _, _, _)
AppendBars(mel, k, t, bars, i, blk) ==
    IF i > Len(bars) THEN [err |-> "none", melody |-> mel]
    ELSE IF bars[i] = <<>> THEN AppendBars(mel, k, t, bars, i + 1, blk)
    ELSE
      Let(BarNotes(k, t, bars[i]), LAMBDA nl :
        IF nl.err # "none" THEN [err |-> nl.err, melody |-> mel]
        ELSE Let(PlaceBar(mel, t, nl.notes, i, Len(bars), blk), LAMBDA r :
               IF r.err # "none" THEN r
               ELSE AppendBars(r.melody, k, t, bars, i + 1, blk)))

\* Song.append_time_signature(time, s) on the melody mel: [err, melody]
append_time_signature(mel, k, t, bars, blk) ==
    IF t = NoTime THEN [err |-> "ValueError: unknown <time>", melody |-> mel]
    ELSE AppendBars(mel, k, t, bars, 1, blk)

(***************************************************************************)
(* Song.make_ties_consistent and Song.try_split_notes.                     *)
(***************************************************************************)
\* TiesNotes without the assignment that clears the ties of a rest
RECURSIVE TiesNotes_KeepRestTies(_, _)
TiesNotes_KeepRestTies(notes, prev_tie) ==
    IF notes = <<>> THEN [notes |-> <<>>, prev_tie |-> prev_tie]
    ELSE
      Let(Tie(Head(notes).tie[0] \/ prev_tie, Head(notes).tie[1]),
          LAMBDA tie :
        Let(TiesNotes_KeepRestTies(Tail(notes), tie[1]), LAMBDA rest :
          [notes |-> <<[Head(notes) EXCEPT !.tie = tie]>> \o rest.notes,
           prev_tie |-> rest.prev_tie]))

\* the pass over the notes of one bar: [notes, prev_tie]
RECURSIVE TiesNotes(_, _)
TiesNotes(notes, prev_tie) ==
    IF notes = <<>> THEN [notes |-> <<>>, prev_tie |-> prev_tie]
    ELSE
      Let(IF is_rest(Head(notes)) THEN Tie(FALSE, FALSE)
          ELSE Tie(Head(notes).tie[0] \/ prev_tie, Head(notes).tie[1]),
          LAMBDA tie :
        Let(TiesNotes(Tail(notes), tie[1]), LAMBDA rest :
          [notes |-> <<[Head(notes) EXCEPT !.tie = tie]>> \o rest.notes,
           prev_tie |-> rest.prev_tie]))

\* the pass over the bars from bar i on: [err, melody]
RECURSIVE TiesBars(_, _, _)
TiesBars(mel, i, prev_tie) ==
    IF i > Len(mel) THEN [err |-> "none", melody |-> mel]
    ELSE IF mel[i].notes = <<>>
    THEN [err |-> "ValueError: empty bar in self.melody", melody |-> mel]
    ELSE Let(TiesNotes(mel[i].notes, prev_tie), LAMBDA r :
           TiesBars([mel EXCEPT ![i].notes = r.notes], i + 1, r.prev_tie))

\* the two closing assignments: the first and the last note of the melody
ClearOuterTies(mel) ==
    LET m1 == [mel EXCEPT ![1].notes[1].tie = Tie(FALSE, @[1])]
        n == Len(m1)
    IN  [m1 EXCEPT ![n].notes[Len(m1[n].notes)].tie = Tie(@[0], FALSE)]

\* Song.make_ties_consistent(): [err, melody]
make_ties_consistent(mel) ==
    IF mel = <<>> THEN [err |-> "none", melody |-> mel]
    ELSE Let(TiesBars(mel, 1, FALSE), LAMBDA r :
           IF r.err # "none" THEN r
           ELSE [err |-> "none", melody |-> ClearOuterTies(r.melody)])

\* the loop of try_split_notes over the notes of one bar: [err, notes]
RECURSIVE SplitBarNotes(_, _, _)
SplitBarNotes(t, bt, notes) ==
    IF notes = <<>> THEN [err |-> "none", notes |-> <<>>]
    ELSE
      Let(IF Head(notes).lines = None \/ Head(notes).dots = None
          THEN split_note(t, bt, Head(notes))
          ELSE [err |-> "none", subnotes |-> <<Head(notes)>>],
          LAMBDA r :
        IF r.err # "none" THEN [err |-> r.err, notes |-> <<>>]
        ELSE Let(SplitBarNotes(t, FAdd(bt, Head(notes).duration), Tail(notes)),
                 LAMBDA rest :
               IF rest.err # "none" THEN rest
               ELSE [err |-> "none", notes |-> r.subnotes \o rest.notes]))

\* Song.try_split_notes() from bar i on: [err, melody]
RECURSIVE SplitBars(_, _)
SplitBars(mel, i) ==
    IF i > Len(mel) THEN [err |-> "none", melody |-> mel]
    ELSE IF mel[i].time.hyphen = None THEN SplitBars(mel, i + 1)
    ELSE Let(SplitBarNotes(mel[i].time, mel[i].beat, mel[i].notes), LAMBDA r :
           IF r.err # "none" THEN [err |-> r.err, melody |-> mel]
           ELSE SplitBars([mel EXCEPT ![i].notes = r.notes], i + 1))

try_split_notes(mel) == SplitBars(mel, 1)

(***************************************************************************)
(* The melody text read by load_song: a list of items, an item a token or  *)
(* the bar line '|'.                                                       *)
(***************************************************************************)
\* the bar line, an item without pitches
BarLine == Token(FALSE, <<>>, FALSE, 0, 0, 0, FALSE, FALSE)

\* s.split('|'): the bars of a text, empty bars included
RECURSIVE SplitBarLines(_)
SplitBarLines(items) ==
    IF items = <<>> THEN <<(<<>>)>>
    ELSE LET rest == SplitBarLines(Tail(items))
         IN  IF Head(items) = BarLine THEN <<(<<>>)>> \o rest
             ELSE <<(<<Head(items)>> \o Head(rest))>> \o Tail(rest)

\* re.findall gives a '~' between two tokens to the token before it: a token
\* has tie0 only at the start of a bar or after a token that has tie1
TieParse(items) ==
    \A i \in 1..Len(items) :
      items[i].tie0 =>
        (i = 1 \/ items[i - 1] = BarLine \/ items[i - 1].tie1)

\* the texts of at most maxlen items over the given tokens
Texts(tokens, maxlen) ==
    {s \in UNION {[1..n -> tokens \cup {BarLine}] : n \in 0..maxlen} :
       TieParse(s)}

\* an unbracketed token of the pitch '1', '0', 'o' or 'O'
Plain(name, dashes, underlines, dots, tie0, tie1) ==
    Token(tie0, <<Pitch("", name, <<>>)>>, FALSE, dashes, underlines, dots,
          FALSE, tie1)

\* a bracketed token of one pitch
Bracketed(name, dashes, underlines, dots, tie0, tie1) ==
    Token(tie0, <<Pitch("", name, <<>>)>>, TRUE, dashes, underlines, dots,
          FALSE, tie1)

\* load_song: one call of append_time_signature(t, s), the text kept in arg
AppendTimeSignature(t, items) ==
    /\ pc = "load"
    /\ \E r \in {append_time_signature(melody, key, t, SplitBarLines(items), blocks)} :
           /\ melody' = r.melody
           /\ err' = r.err
           /\ pc' = IF r.err # "none" THEN "raised" ELSE "loaded"
    /\ arg' = items
    /\ blocks' = blocks + 1
    /\ UNCHANGED <<splitVars, ret, key, lyrics, sections>>

\* load_song: song.make_ties_consistent()
MakeTiesConsistent ==
    /\ pc = "loaded"
    /\ \E r \in {make_ties_consistent(melody)} :
           /\ melody' = r.melody
           /\ err' = r.err
           /\ pc' = IF r.err # "none" THEN "raised" ELSE "tied"
    /\ UNCHANGED <<splitVars, callVars, key, blocks, lyrics, sections>>

\* load_song: song.try_split_notes()
TrySplitNotes ==
    /\ pc = "tied"
    /\ \E r \in {try_split_notes(melody)} :
           /\ melody' = r.melody
           /\ err' = r.err
           /\ pc' = IF r.err # "none" THEN "raised" ELSE "split"
    /\ UNCHANGED <<splitVars, callVars, key, blocks, lyrics, sections>>

\* a Song in the key 'solfa' before its melody is read
InitSong ==
    /\ pc = "load"
    /\ err = "none"
    /\ time = NoTime
    /\ start_beat = FInt(0)
    /\ note = None
    /\ beat = FInt(0)
    /\ subnotes = <<>>
    /\ arg = <<>>
    /\ ret = None
    /\ key = SolfaKey
    /\ blocks = 0
    /\ melody = <<>>
    /\ lyrics = <<>>
    /\ sections = <<>>

\* the notes of the melody in order
RECURSIVE Flatten(_)
Flatten(mel) == IF mel = <<>> THEN <<>> ELSE Head(mel).notes \o Flatten(Tail(mel))

(***************************************************************************)
(* Specification SpecBars: append_time_signature on texts of notes of      *)
(* several lengths under fixed, hyphen and free time signatures.           *)
(***************************************************************************)
MaxBarItems == 3

\* notes of one, two and three units
BarDashes == {0, 1, 2}

BarTokens ==
    {Plain("1", d, 0, 0, FALSE, FALSE) : d \in BarDashes}
    \cup {Plain("1", 0, 1, 0, FALSE, FALSE), Bracketed("1", 0, 1, 0, FALSE, FALSE),
          Bracketed("1", 0, 0, 1, FALSE, FALSE)}

BarTimes ==
    {Time(Some(2), 4, None), Time(Some(2), 4, Some(4)), Time(Some(3), 4, Some(8)),
     Time(Some(6), 8, None), Time(Some(6), 8, Some(8)), Time(None, 4, None)}

LoadBars ==
    \E t \in BarTimes, s \in Texts(BarTokens, MaxBarItems) :
      AppendTimeSignature(t, s)

NextBars == LoadBars

SpecBars == InitSong /\ [][NextBars]_vars

\* what a bar holds: its start beat plus the durations of its notes
BarFill(bar) == FAdd(bar.beat, FSum(Durations(bar.notes)))

\* C1 as claimed: after append_time_signature the note durations of every
\* bar under a fixed upper sum exactly to the bar's time_duration.
C1_BarsSumToCapacity ==
    pc = "loaded" =>
      \A i \in 1..Len(melody) :
        melody[i].time.upper # None =>
          FSum(Durations(melody[i].notes)) = TimeDuration(melody[i].time)

\* C1 amended: after append_time_signature every bar under a fixed upper
\* holds, from its start beat on, at most time_duration, and exactly
\* time_duration when the next bar continues the same bar text.
C1_BarsWithinCapacity ==
    pc = "loaded" =>
      \A i \in 1..Len(melody) :
        melody[i].time.upper # None =>
          /\ FLe(BarFill(melody[i]), TimeDuration(melody[i].time))
          /\ (i < Len(melody) /\ melody[i + 1].text = melody[i].text)
               => BarFill(melody[i]) = TimeDuration(melody[i].time)

\* a pickup bar, then a note split at a bar line whose tail leaves its bar
\* short
C1_Witness ==
    /\ pc = "loaded"
    /\ Len(melody) = 3
    /\ melody[1].time.upper # None
    /\ melody[1].beat.n > 0
    /\ melody[3].text = melody[2].text
    /\ FLt(BarFill(melody[3]), TimeDuration(melody[3].time))

(***************************************************************************)
(* Specification SpecTies: append_time_signature, make_ties_consistent and *)
(* try_split_notes on texts of notes and rests with tie marks.             *)
(***************************************************************************)
MaxTieItems == 2

\* a note of one unit and a note of four units, the latter split in 6/8
TieDashes == {0, 3}

TieTokens ==
    {Plain("1", d, 0, 0, t0, t1) : d \in TieDashes, t0 \in BOOLEAN, t1 \in BOOLEAN}
    \cup {Plain("0", d, 0, 0, b, b) : d \in TieDashes, b \in BOOLEAN}
    \cup {Plain("O", 3, 0, 0, TRUE, TRUE), Plain("o", 0, 0, 0, FALSE, TRUE)}

TieTimes == {Time(Some(2), 4, None), Time(Some(6), 8, Some(8))}

LoadTies ==
    \E t \in TieTimes, s \in Texts(TieTokens, MaxTieItems) :
      AppendTimeSignature(t, s)

NextTies == LoadTies \/ MakeTiesConsistent \/ TrySplitNotes

SpecTies == InitSong /\ [][NextTies]_vars

\* C2 as claimed: after make_ties_consistent, every two adjacent notes of the
\* melody, across bar lines too, agree on the tie between them.
C2_AdjacentTiesAgree ==
    pc = "tied" =>
      LET notes == Flatten(melody)
      IN  \A i \in 1..(Len(notes) - 1) : notes[i].tie[1] = notes[i + 1].tie[0]

\* C8: after make_ties_consistent every rest has no tie, the first note of
\* the melody has tie[0] false and the last has tie[1] false; after
\* try_split_notes every rest still has no tie.
C8_RestsAndEndsUntied ==
    LET notes == Flatten(melody)
    IN  /\ pc \in {"tied", "split"} =>
             \A i \in 1..Len(notes) :
               is_rest(notes[i]) => notes[i].tie = Tie(FALSE, FALSE)
        /\ (pc = "tied" /\ notes # <<>>) =>
             /\ ~notes[1].tie[0]
             /\ ~notes[Len(notes)].tie[1]

\* a rest written between tie marks that try_split_notes cut in pieces, after
\* a note written with a tie mark in front
C8_Witness ==
    /\ pc = "split"
    /\ Len(arg) >= 2
    /\ arg[1].tie0 /\ arg[1].pitches[1].name = "1"
    /\ \E i \in 2..Len(arg) :
         /\ arg[i] # BarLine
         /\ arg[i].pitches[1].name \in {"0", "O"} /\ arg[i].tie0 /\ arg[i].tie1
    /\ \E i \in 1..Len(melody) :
         \E j \in 1..(Len(melody[i].notes) - 1) :
           /\ is_rest(melody[i].notes[j]) /\ is_rest(melody[i].notes[j + 1])
           /\ melody[i].notes[j].lines = None

(***************************************************************************)
(* Specification SpecNotation: a notation is turned into a duration as     *)
(* append_time_signature does, and the duration back into a notation by    *)
(* Node.                                                                   *)
(***************************************************************************)
MaxDashes == 7

MaxUnderlines == 3

MaxDots == 3

InitNotation ==
    /\ pc = "notation"
    /\ err = "none"
    /\ time = Time(Some(4), 4, Some(4))
    /\ start_beat = FInt(0)
    /\ note = None
    /\ beat = FInt(0)
    /\ subnotes = <<>>
    /\ arg \in [dashes : 0..MaxDashes, underlines : 0..MaxUnderlines,
                dots : 0..MaxDots, triplet : BOOLEAN]
    /\ ret = None
    /\ key = SolfaKey
    /\ blocks = 0
    /\ melody = <<>>
    /\ lyrics = <<>>
    /\ sections = <<>>

\* append_time_signature: the duration of a bracketed token, kept in a note
\* that carries no notation
NotationToDuration ==
    /\ pc = "notation"
    /\ LET tok == Token(FALSE, <<Pitch("", "1", <<>>)>>, TRUE, arg.dashes,
                        arg.underlines, arg.dots, arg.triplet, FALSE)
           r == TokenNotes(key, time, tok)
       IN  IF r.err # "none"
           THEN /\ pc' = "raised"
                /\ err' = r.err
                /\ UNCHANGED note
           ELSE /\ pc' = "duration"
                /\ note' = [r.notes[1] EXCEPT !.lines = None, !.dots = None]
                /\ UNCHANGED err
    /\ UNCHANGED <<time, start_beat, beat, subnotes, callVars, songVars>>

\* Node(note)
DurationToNode ==
    /\ pc = "duration"
    /\ ret' = NodeInit(note)
    /\ err' = NodeInit(note).err
    /\ pc' = "decoded"
    /\ UNCHANGED <<splitVars, arg, songVars>>

NextNotation == NotationToDuration \/ DurationToNode

SpecNotation == InitNotation /\ [][NextNotation]_vars

\* the lines and dots Note.__init__ keeps for the notation arg
WrittenLines == IF arg.dashes > 0 THEN arg.dashes ELSE -arg.underlines

\* C6 as claimed: every notation without a triplet mark, dashes and
\* underlines not both positive, is decoded back from its duration.
C6_RoundTrip ==
    (pc = "decoded" /\ ~arg.triplet) =>
      /\ ret.err = "none"
      /\ ret.lines = Some(WrittenLines)
      /\ ret.dots = Some(arg.dots)

\* x is a single run of binary ones followed by zeros
OneRun(x) ==
    \E a \in 1..BitLength(x), b \in 0..BitLength(x) : x = (Pow2(a) - 1) * Pow2(b)

\* C6 amended: a notation without a triplet mark is decoded back from its
\* duration when it has no dashes, or when it has dashes, no dots and
\* dashes + 1 is a single run of binary ones.
C6_RoundTripUndashedOrUndotted ==
    (pc = "decoded" /\ ~arg.triplet
       /\ (arg.dashes = 0 \/ (arg.dots = 0 /\ OneRun(arg.dashes + 1)))) =>
      /\ ret.err = "none"
      /\ ret.lines = Some(WrittenLines)
      /\ ret.dots = Some(arg.dots)

C6_Witness ==
    /\ pc = "decoded" /\ ~arg.triplet
    /\ arg.dashes = 0 /\ arg.underlines = 2 /\ arg.dots = 2
    /\ ret.lines = Some(-2) /\ ret.dots = Some(2)

(***************************************************************************)
(* parse_time(s), the string s a sequence of characters.                   *)
(***************************************************************************)
RECURSIVE LStrip(_)
LStrip(s) == IF s # <<>> /\ Head(s) = " " THEN LStrip(Tail(s)) ELSE s

\* the leading characters of s up to the first space
RECURSIVE FirstWord(_)
FirstWord(s) ==
    IF s = <<>> \/ Head(s) = " " THEN <<>> ELSE <<Head(s)>> \o FirstWord(Tail(s))

\* s.split(maxsplit=1)
SplitMax1(s) ==
    LET t == LStrip(s)
        w == FirstWord(t)
        r == LStrip(SubSeq(t, Len(w) + 1, Len(t)))
    IN  IF t = <<>> THEN <<>> ELSE IF r = <<>> THEN <<w>> ELSE <<w, r>>

\* s.replace(' ', '')
RemoveSpaces(s) == SelectSeq(s, LAMBDA ch : ch # " ")

\* s.split('/')
RECURSIVE SplitSlash(_)
SplitSlash(s) ==
    IF s = <<>> THEN <<(<<>>)>>
    ELSE LET rest == SplitSlash(Tail(s))
         IN  IF Head(s) = "/" THEN <<(<<>>)>> \o rest
             ELSE <<(<<Head(s)>> \o Head(rest))>> \o Tail(rest)

StartsWith(s, prefix) ==
    Len(s) >= Len(prefix) /\ SubSeq(s, 1, Len(prefix)) = prefix

DigitValue ==
    ("0" :> 0) @@ ("1" :> 1) @@ ("2" :> 2) @@ ("3" :> 3) @@ ("4" :> 4)
    @@ ("5" :> 5) @@ ("6" :> 6) @@ ("7" :> 7) @@ ("8" :> 8) @@ ("9" :> 9)

RECURSIVE DigitsValue(_, _)
DigitsValue(s, acc) ==
    IF s = <<>> THEN acc ELSE DigitsValue(Tail(s), 10 * acc + DigitValue[Head(s)])

\* int(s): Some(value), or None where int raises ValueError
IntOf(s) ==
    IF s # <<>> /\ \A i \in 1..Len(s) : s[i] \in DOMAIN DigitValue
    THEN Some(DigitsValue(s, 0)) ELSE None

HyphenPrefix == <<"h", "y", "p", "h", "e", "n", "=">>

\* the (a, b) pairs parse_time recognizes, a = None for '?'
KnownMeters ==
    {<<Some(2), 4>>, <<Some(3), 4>>, <<Some(4), 4>>, <<Some(6), 8>>,
     <<Some(9), 8>>, <<Some(12), 8>>, <<None, 4>>, <<None, 8>>}

TimeResult(e, t) == [err |-> e, time |-> t]

\* parse_time from 'ss = ss[0].replace(' ', '').split('/')' on
ParseMeter(s, ss, hyphen) ==
    IF ss = <<>> THEN TimeResult("IndexError", NoTime)
    ELSE
      LET parts == SplitSlash(RemoveSpaces(ss[1]))
      IN  IF Len(parts) # 2
          THEN TimeResult("ValueError: wrong format for <time>", NoTime)
          ELSE IF (parts[1] # <<"?">> /\ IntOf(parts[1]) = None)
                  \/ IntOf(parts[2]) = None
          THEN TimeResult("ValueError: invalid literal for int()", NoTime)
          ELSE
            LET a == IF parts[1] = <<"?">> THEN None ELSE IntOf(parts[1])
                b == Val(IntOf(parts[2]))
            IN  IF <<a, b>> \notin KnownMeters
                THEN TimeResult("ValueError: unrecognizable <time>", NoTime)
                ELSE IF hyphen # None /\ Val(hyphen) < b
                THEN TimeResult("ValueError: hyphen must >= lower", NoTime)
                ELSE TimeResult("none", Time(a, b, hyphen))

\* parse_time(s): [err, time]
parse_time(s) ==
    LET ss == SplitMax1(s)
    IN  IF Len(ss) > 1
        THEN LET h == RemoveSpaces(ss[2])
             IN  IF ~StartsWith(h, HyphenPrefix)
                 THEN TimeResult("ValueError: wrong format for <time>", NoTime)
                 ELSE IF SubSeq(h, 8, Len(h)) \notin {<<"4">>, <<"8">>, <<"1", "6">>}
                 THEN TimeResult("ValueError: only hyphen=[4,8,16] is allowed", NoTime)
                 ELSE ParseMeter(s, ss, IntOf(SubSeq(h, 8, Len(h))))
        ELSE ParseMeter(s, ss, None)

(***************************************************************************)
(* Specification SpecTime: parse_time on <time> strings put together from  *)
(* an upper word, '/', a lower word and a hyphen clause, each carrying the *)
(* value it is meant to denote (-1: not a number).                         *)
(***************************************************************************)
Word(chars, value) == [chars |-> chars, value |-> value]

UpperWords ==
    {Word(<<"2">>, Some(2)), Word(<<"3">>, Some(3)), Word(<<"4">>, Some(4)),
     Word(<<"6">>, Some(6)), Word(<<"9">>, Some(9)), Word(<<"1", "2">>, Some(12)),
     Word(<<"0", "4">>, Some(4)), Word(<<"5">>, Some(5)), Word(<<"?">>, None),
     Word(<<>>, Some(-1))}

LowerWords ==
    {Word(<<"4">>, 4), Word(<<"8">>, 8), Word(<<"5">>, 5), Word(<<"1", "6">>, 16),
     Word(<<"?">>, -1), Word(<<>>, -1)}

HyphenClauses ==
    {Word(<<>>, None), Word(<<" ">>, None),
     Word(<<" ">> \o HyphenPrefix \o <<"4">>, Some(4)),
     Word(<<" ">> \o HyphenPrefix \o <<"8">>, Some(8)),
     Word(<<" ">> \o HyphenPrefix \o <<"1", "6">>, Some(16)),
     Word(<<" ">> \o HyphenPrefix \o <<"9">>, Some(9)),
     Word(<<" ", "h", "y", "p", "h", "e", "n", " ", "=", " ", "8">>, Some(8)),
     Word(<<" ", "h", "y", "p", "h", "e", "n", "8">>, Some(-1))}

\* strings that are not of the form upper/lower[ clause]
OddTimes ==
    {[text |-> <<>>, upper |-> Some(-1), lower |-> -1, hyphen |-> None],
     [text |-> <<" ", " ">>, upper |-> Some(-1), lower |-> -1, hyphen |-> None],
     [text |-> <<"4">>, upper |-> Some(4), lower |-> -1, hyphen |-> None],
     [text |-> <<"4", "/", "4", "/", "4">>, upper |-> Some(4), lower |-> -1,
      hyphen |-> None],
     [text |-> <<"4", " ", "/", " ", "4">>, upper |-> Some(4), lower |-> 4,
      hyphen |-> Some(-1)]}

TimeTexts ==
    {[text |-> u.chars \o <<"/">> \o l.chars \o h.chars, upper |-> u.value,
      lower |-> l.value, hyphen |-> h.value] :
        u \in UpperWords, l \in LowerWords, h \in HyphenClauses}
    \cup OddTimes

InitTime ==
    /\ pc = "time"
    /\ err = "none"
    /\ time = NoTime
    /\ start_beat = FInt(0)
    /\ note = None
    /\ beat = FInt(0)
    /\ subnotes = <<>>
    /\ arg \in TimeTexts
    /\ ret = None
    /\ key = SolfaKey
    /\ blocks = 0
    /\ melody = <<>>
    /\ lyrics = <<>>
    /\ sections = <<>>

\* time = parse_time(arg.text)
ParseTime ==
    /\ pc = "time"
    /\ \E r \in {parse_time(arg.text)} :
           /\ err' = r.err
           /\ pc' = IF r.err = "none" THEN "returned" ELSE "raised"
           /\ ret' = IF r.err = "none" THEN Some(r.time) ELSE None
    /\ UNCHANGED <<splitVars, arg, songVars>>

NextTime == ParseTime

SpecTime == InitTime /\ [][NextTime]_vars

\* the strings C10 says are accepted
Accepted(t) ==
    /\ <<t.upper, t.lower>> \in KnownMeters
    /\ \/ t.hyphen = None
       \/ Val(t.hyphen) \in {4, 8, 16} /\ Val(t.hyphen) >= t.lower

\* C10: parse_time returns Time(upper, lower, hyphen) exactly for a known
\* meter whose hyphen is absent or one of 4, 8, 16 and >= lower; every other
\* string fails with the format error (ValueError) and returns no Time.
C10_ParseTimeExact ==
    (pc \in {"returned", "raised"}) =>
      IF Accepted(arg)
      THEN pc = "returned" /\ ret = Some(Time(arg.upper, arg.lower, arg.hyphen))
      ELSE pc = "raised" /\ ret = None /\ err \in
             {"ValueError: wrong format for <time>",
              "ValueError: only hyphen=[4,8,16] is allowed",
              "ValueError: invalid literal for int()",
              "ValueError: unrecognizable <time>",
              "ValueError: hyphen must >= lower"}

(***************************************************************************)
(* Song.merge_melody_lyrics.  Song.lyrics is a list of (tag, lines), a     *)
(* line a sequence of characters.  A node keeps its note in value (None    *)
(* for a dash or dot node); indices into nodes count from 0 as in the      *)
(* source.                                                                 *)
(***************************************************************************)
Lyrics(tag, lines) == [tag |-> tag, lines |-> lines]

RECURSIVE Join(_)
Join(lines) == IF lines = <<>> THEN <<>> ELSE Head(lines) \o Join(Tail(lines))

\* ''.join([''.join(section[1]) for section in self.lyrics])
RECURSIVE all_lyrics(_)
all_lyrics(lyr) ==
    IF lyr = <<>> THEN <<>> ELSE Join(Head(lyr).lines) \o all_lyrics(Tail(lyr))

\* the (sum_len, tag) assignments to split_sections, in order
RECURSIVE SectionStarts(_, _)
SectionStarts(lyr, sum_len) ==
    IF lyr = <<>> THEN <<>>
    ELSE <<(<<sum_len, Head(lyr).tag>>)>>
         \o SectionStarts(Tail(lyr), sum_len + Len(Join(Head(lyr).lines)))

\* split_sections.get(idx): the last tag assigned to idx
split_sections(lyr, idx) ==
    LET starts == SectionStarts(lyr, 0)
        hits == {i \in DOMAIN starts : starts[i][1] = idx}
    IN  IF hits = {} THEN None ELSE Some(starts[Max(hits)][2])

RECURSIVE LineStarts(_, _)
LineStarts(lines, sum_len) ==
    IF lines = <<>> THEN {}
    ELSE {sum_len} \cup LineStarts(Tail(lines), sum_len + Len(Head(lines)))

\* split_lines, as a set
RECURSIVE split_lines(_, _)
split_lines(lyr, sum_len) ==
    IF lyr = <<>> THEN {}
    ELSE LineStarts(Head(lyr).lines, sum_len)
         \cup split_lines(Tail(lyr), sum_len + Len(Join(Head(lyr).lines)))

\* some line of the lyrics starts with '~'
StartsWithSlur(lyr) ==
    \E i \in DOMAIN lyr : \E j \in DOMAIN lyr[i].lines :
      lyr[i].lines[j] # <<>> /\ lyr[i].lines[j][1] = "~"

NoteNode(nt, lines, dots, text) ==
    [type |-> "NOTE", value |-> Some(nt), lines |-> lines, dots |-> dots,
     text |-> text]

\* Node('-')
DashNode ==
    [type |-> "DASH", value |-> None, lines |-> None, dots |-> None, text |-> None]

\* Node('.')
DotNode ==
    [type |-> "DOT", value |-> None, lines |-> None, dots |-> None, text |-> None]

EmptyLine == [nodes |-> <<>>, bars |-> <<>>, ties |-> <<>>, slurs |-> <<>>]

Section(tag, lines) == [tag |-> tag, lines |-> lines]

\* the local variables of merge_melody_lyrics between two notes; at is the
\* place in the melody of the note that nodes[line_node_idx_prev] holds
MergeState(e, mel, idx, sadd, ladd, prev, at, pss, secs) ==
    [err |-> e, melody |-> mel, lyrics_idx |-> idx, section_added |-> sadd,
     line_added |-> ladd, line_node_idx_prev |-> prev, at |-> at,
     potential_slur_start_line_node_idx |-> pss, sections |-> secs]

Raise(st, e) == [st EXCEPT !.err = e]

\* sections with their last line replaced
WithLine(secs, line) ==
    LET n == Len(secs)
        m == Len(secs[n].lines)
    IN  [secs EXCEPT ![n].lines[m] = line]

\* [nodes] * count appended with their indices entered in the last bar
RECURSIVE AppendMarks(_, _, _)
AppendMarks(line, node, count) ==
    IF count <= 0 THEN line
    ELSE LET b == Len(line.bars)
         IN  AppendMarks([line EXCEPT !.bars[b].idx = Append(@, Len(line.nodes)),
                                      !.nodes = Append(@, node)],
                         node, count - 1)

\* sections[-1][1][-1]
CurrentLine(st) ==
    LET sec == st.sections[Len(st.sections)]
    IN  sec.lines[Len(sec.lines)]

\* '# new section'
NewSection(st, lyr, nt) ==
    LET tag == split_sections(lyr, st.lyrics_idx)
    IN  IF tag # None /\ Val(tag) # "" /\ ~st.section_added
           /\ may_start_new_line(nt)
        THEN [st EXCEPT !.sections = Append(@, Section(Val(tag), <<>>)),
                        !.section_added = TRUE]
        ELSE st

\* NewLine without the test of may_start_new_line
NewLine_AtAnyNote(st, lyr, nt) ==
    IF st.lyrics_idx \in split_lines(lyr, 0) /\ ~st.line_added
    THEN IF st.sections = <<>> THEN Raise(st, "IndexError")
         ELSE [st EXCEPT !.sections[Len(st.sections)].lines = Append(@, EmptyLine),
                         !.line_added = TRUE,
                         !.line_node_idx_prev = -1,
                         !.at = None,
                         !.potential_slur_start_line_node_idx = None]
    ELSE st

\* '# new line'
NewLine(st, lyr, nt) ==
    IF st.lyrics_idx \in split_lines(lyr, 0) /\ ~st.line_added
       /\ may_start_new_line(nt)
    THEN IF st.sections = <<>> THEN Raise(st, "IndexError")
         ELSE [st EXCEPT !.sections[Len(st.sections)].lines = Append(@, EmptyLine),
                         !.line_added = TRUE,
                         !.line_node_idx_prev = -1,
                         !.at = None,
                         !.potential_slur_start_line_node_idx = None]
    ELSE st

\* 'line = sections[-1][1][-1]' and '# new bar'
NewBar(st, t, bt, k) ==
    IF st.sections = <<>> \/ st.sections[Len(st.sections)].lines = <<>>
    THEN Raise(st, "IndexError")
    ELSE LET line == CurrentLine(st)
         IN  IF k = 0 \/ line.bars = <<>>
             THEN [st EXCEPT !.sections = WithLine(@,
                      [line EXCEPT !.bars =
                          Append(@, [time |-> t, beat |-> bt, idx |-> <<>>])])]
             ELSE st

\* HandleSlurs without the branch that forgets the start at a rest
HandleSlurs_RestKeepsStart(st, lyr, nt) ==
    LET all == all_lyrics(lyr)
        num_words == Len(all)
        line == CurrentLine(st)
        line_node_idx == Len(line.nodes)
        i == st.lyrics_idx
        start == st.potential_slur_start_line_node_idx
    IN  IF is_rest(nt) \/ nt.tie[0] THEN st
        ELSE IF i >= num_words THEN Raise(st, "IndexError")
        ELSE IF all[i + 1] = "~"
        THEN IF i = num_words - 1 \/ all[i + 2] # "~"
             THEN IF start = None
                  THEN Raise(st, "ValueError: start note of slur not found")
                  ELSE [st EXCEPT
                          !.sections = WithLine(@,
                              [line EXCEPT !.slurs =
                                  Append(@, <<Val(start), line_node_idx>>)]),
                          !.potential_slur_start_line_node_idx = None]
             ELSE st
        ELSE [st EXCEPT !.potential_slur_start_line_node_idx = Some(line_node_idx)]

\* '# handle slurs'
HandleSlurs(st, lyr, nt) ==
    LET all == all_lyrics(lyr)
        num_words == Len(all)
        line == CurrentLine(st)
        line_node_idx == Len(line.nodes)
        i == st.lyrics_idx
        start == st.potential_slur_start_line_node_idx
    IN  IF is_rest(nt)
        THEN [st EXCEPT !.potential_slur_start_line_node_idx = None]
        ELSE IF nt.tie[0] THEN st
        ELSE IF i >= num_words THEN Raise(st, "IndexError")
        ELSE IF all[i + 1] = "~"
        THEN IF i = num_words - 1 \/ all[i + 2] # "~"
             THEN IF start = None
                  THEN Raise(st, "ValueError: start note of slur not found")
                  ELSE [st EXCEPT
                          !.sections = WithLine(@,
                              [line EXCEPT !.slurs =
                                  Append(@, <<Val(start), line_node_idx>>)]),
                          !.potential_slur_start_line_node_idx = None]
             ELSE st
        ELSE [st EXCEPT !.potential_slur_start_line_node_idx = Some(line_node_idx)]

\* 'nodes[line_node_idx_prev].value.tie[1] = True', the note being the one
\* the melody holds at st.at; a negative index counts from the end of nodes
TiePrev(st, line) ==
    LET prev == st.line_node_idx_prev
        j == IF prev < 0 THEN Len(line.nodes) + prev + 1 ELSE prev + 1
    IN  IF j \notin DOMAIN line.nodes THEN Raise(st, "IndexError")
        ELSE IF line.nodes[j].type # "NOTE" THEN Raise(st, "AttributeError")
        ELSE LET nt == Val(line.nodes[j].value)
                 tied == [nt EXCEPT !.tie = Tie(nt.tie[0], TRUE)]
                 mel == IF st.at = None THEN st.melody
                        ELSE [st.melody EXCEPT
                                ![Val(st.at)[1]].notes[Val(st.at)[2]] = tied]
             IN  [st EXCEPT !.melody = mel,
                            !.sections = WithLine(@,
                                [line EXCEPT !.nodes[j].value = Some(tied)])]

\* nodes.append(node) and the dash and dot nodes after it
AppendNodes(st, node, at) ==
    LET line == CurrentLine(st)
        line1 == [line EXCEPT !.nodes = Append(@, node)]
        line2 == AppendMarks(line1, DashNode, Val(node.lines))
        line3 == AppendMarks(line2, DotNode, Val(node.dots))
    IN  [st EXCEPT !.sections = WithLine(@, line3),
                   !.line_node_idx_prev = Len(line.nodes),
                   !.at = Some(at)]

\* '# append note Node' on
AppendNote(st, lyr, nt, at) ==
    LET all == all_lyrics(lyr)
        num_words == Len(all)
        i == st.lyrics_idx
        node == NodeInit(nt)
        line == CurrentLine(st)
        line_node_idx == Len(line.nodes)
        line1 == [line EXCEPT !.bars[Len(line.bars)].idx = Append(@, line_node_idx)]
    IN  IF node.err # "none" THEN Raise(st, node.err)
        ELSE IF nt.tie[0]
        THEN LET line2 == [line1 EXCEPT !.ties =
                              Append(@, <<st.line_node_idx_prev, line_node_idx>>)]
                 st2 == TiePrev(st, line2)
             IN  IF st2.err # "none" THEN st2
                 ELSE AppendNodes(st2, NoteNode(nt, node.lines, node.dots, None), at)
        ELSE LET st1 == [st EXCEPT !.sections = WithLine(@, line1)]
             IN  IF ~to_match_lyrics(nt)
                 THEN AppendNodes(st1, NoteNode(nt, node.lines, node.dots, None), at)
                 ELSE IF i >= num_words
                 THEN Raise(st1, "ValueError: #notes > " \o ToString(num_words)
                                 \o " words")
                 ELSE IF is_rest(nt) /\ all[i + 1] # "O"
                 THEN Raise(st1, "ValueError: note O cannot match lyrics")
                 ELSE AppendNodes(
                        [st1 EXCEPT !.lyrics_idx = i + 1,
                                    !.section_added = FALSE,
                                    !.line_added = FALSE],
                        NoteNode(nt, node.lines, node.dots,
                                 IF is_rest(nt) \/ all[i + 1] = "~"
                                 THEN None ELSE Some(all[i + 1])),
                        at)

\* the body of 'for k, note in enumerate(notes)'
MergeNote(st, lyr, t, bt, k, nt, at) ==
    LET st1 == NewLine(NewSection(st, lyr, nt), lyr, nt)
        st2 == IF st1.err # "none" THEN st1 ELSE NewBar(st1, t, bt, k)
        st3 == IF st2.err # "none" THEN st2 ELSE HandleSlurs(st2, lyr, nt)
    IN  IF st3.err # "none" THEN st3 ELSE AppendNote(st3, lyr, nt, at)

RECURSIVE MergeNotes(_, _, _, _, _)
MergeNotes(st, lyr, b, j, bt) ==
    IF st.err # "none" \/ j > Len(st.melody[b].notes) THEN st
    ELSE LET nt == st.melody[b].notes[j]
         IN  MergeNotes(MergeNote(st, lyr, st.melody[b].time, bt, j - 1, nt, <<b, j>>),
                        lyr, b, j + 1, FAdd(bt, nt.duration))

\* 'for time, start_beat, notes in self.melody'
RECURSIVE MergeBars(_, _, _)
MergeBars(st, lyr, b) ==
    IF st.err # "none" \/ b > Len(st.melody) THEN st
    ELSE MergeBars(MergeNotes(st, lyr, b, 1, st.melody[b].beat), lyr, b + 1)

\* merge_melody_lyrics(): [err, melody, sections]
merge_melody_lyrics(mel, lyr) ==
    LET num_words == Len(all_lyrics(lyr))
        st == MergeBars(MergeState("none", mel, 0, FALSE, FALSE, -1, None, None, <<>>),
                        lyr, 1)
    IN  IF StartsWithSlur(lyr)
        THEN [err |-> "ValueError: a line of lyrics cannot start with '~'",
              melody |-> mel, sections |-> <<>>]
        ELSE IF st.err # "none"
        THEN [err |-> st.err, melody |-> st.melody, sections |-> <<>>]
        ELSE IF st.lyrics_idx # num_words
        THEN [err |-> "ValueError: " \o ToString(st.lyrics_idx) \o " notes != "
                      \o ToString(num_words) \o " words",
              melody |-> st.melody, sections |-> <<>>]
        ELSE [err |-> "none", melody |-> st.melody, sections |-> st.sections]

(***************************************************************************)
(* load_song, the lyrics file: a list of lines, each a '<tag>' line or a   *)
(* line of characters.                                                     *)
(***************************************************************************)
TagLine(tag) == [kind |-> "tag", tag |-> tag, chars |-> <<>>]

TextLine(chars) == [kind |-> "text", tag |-> "", chars |-> chars]

\* the ASCII characters load_song removes from a line
Punctuation == {" ", ",", ".", "!", "?"}

\* 'for line in f' of the lyrics file: [err, lyrics]
RECURSIVE LoadLyricsLines(_, _)
LoadLyricsLines(file, lyr) ==
    IF file = <<>> THEN [err |-> "none", lyrics |-> lyr]
    ELSE LET line == Head(file)
             ss == SelectSeq(line.chars, LAMBDA ch : ch \notin Punctuation)
         IN  IF line.kind = "tag"
             THEN LoadLyricsLines(Tail(file), Append(lyr, Lyrics(line.tag, <<>>)))
             ELSE IF ss = <<>> THEN LoadLyricsLines(Tail(file), lyr)
             ELSE IF lyr = <<>>
             THEN [err |-> "ValueError: no <tag> specified", lyrics |-> lyr]
             ELSE LoadLyricsLines(Tail(file),
                      [lyr EXCEPT ![Len(lyr)].lines = Append(@, ss)])

\* load_song: the lyrics part, the melody text and the file kept in arg
LoadLyrics(file) ==
    /\ pc = "split"
    /\ \E r \in {LoadLyricsLines(file, lyrics)} :
           /\ lyrics' = r.lyrics
           /\ err' = r.err
           /\ pc' = IF r.err # "none" THEN "raised" ELSE "lyrics"
    /\ arg' = [text |-> arg, file |-> file]
    /\ UNCHANGED <<splitVars, ret, key, blocks, melody, sections>>

\* sections = song.merge_melody_lyrics()
MergeMelodyLyrics ==
    /\ pc = "lyrics"
    /\ \E r \in {merge_melody_lyrics(melody, lyrics)} :
           /\ melody' = r.melody
           /\ sections' = r.sections
           /\ err' = r.err
           /\ pc' = IF r.err # "none" THEN "merge_raised" ELSE "merged"
    /\ UNCHANGED <<splitVars, callVars, key, blocks, lyrics>>

(***************************************************************************)
(* Specification SpecLyrics: load_song on a melody text and a lyrics file, *)
(* then merge_melody_lyrics.                                               *)
(***************************************************************************)
MaxLyricsItems == 2

MaxLyricsLines == 2

LyricsTokens ==
    {Plain("1", 0, 0, 0, FALSE, FALSE), Plain("1", 0, 0, 0, FALSE, TRUE),
     Plain("1", 2, 0, 0, FALSE, FALSE), Plain("0", 0, 0, 0, FALSE, FALSE),
     Plain("O", 0, 0, 0, FALSE, FALSE), Plain("o", 0, 0, 0, FALSE, FALSE)}

LyricsTimes == {Time(Some(2), 4, Some(4))}

LyricsFileLines ==
    {TagLine("A"), TextLine(<<"a">>), TextLine(<<"a", "~">>), TextLine(<<"~">>),
     TextLine(<<"O">>), TextLine(<<"a", ",", "a">>), TextLine(<<",">>)}

LyricsFiles == UNION {[1..n -> LyricsFileLines] : n \in 0..MaxLyricsLines}

LoadMelody ==
    \E t \in LyricsTimes, s \in Texts(LyricsTokens, MaxLyricsItems) :
      AppendTimeSignature(t, s)

LoadLyricsFile == \E file \in LyricsFiles : LoadLyrics(file)

NextLyrics ==
    \/ LoadMelody
    \/ MakeTiesConsistent
    \/ TrySplitNotes
    \/ LoadLyricsFile
    \/ MergeMelodyLyrics

SpecLyrics == InitSong /\ [][NextLyrics]_vars

\* the number of notes of the melody that consume a lyric character
Consuming(mel) ==
    Len(SelectSeq(Flatten(mel), LAMBDA nt : to_match_lyrics(nt)))

\* the number of lyric characters other than '~'
Words(lyr) == Len(SelectSeq(all_lyrics(lyr), LAMBDA ch : ch # "~"))

\* the format errors of merge_melody_lyrics: the two that state a count, and
\* those raised for the lyrics before the counts are compared
FormatErrors(mel, lyr) ==
    {"ValueError: " \o ToString(Consuming(mel)) \o " notes != "
       \o ToString(Len(all_lyrics(lyr))) \o " words",
     "ValueError: #notes > " \o ToString(Len(all_lyrics(lyr))) \o " words",
     "ValueError: a line of lyrics cannot start with '~'",
     "ValueError: start note of slur not found",
     "ValueError: note O cannot match lyrics"}

\* C7: merge_melody_lyrics returns sections only when the lyric-consuming
\* notes are as many as the lyric characters other than '~'; on a mismatch
\* it fails with a format error, the one that states the counts unless the
\* lyrics are rejected before.
C7_CountsChecked ==
    /\ pc = "merged" => Consuming(melody) = Words(lyrics)
    /\ (pc \in {"merged", "merge_raised"} /\ Consuming(melody) # Words(lyrics)) =>
         /\ pc = "merge_raised"
         /\ err \in FormatErrors(melody, lyrics)

(***************************************************************************)
(* parse_key(s).  The table of the 15 keys is built as the code builds it: *)
(* n flats (x = -1) or n sharps (x = 1) added along the circle of fifths.  *)
(* A signature table is the 8-tuple a, indexed 0..7, index 0 unused.       *)
(***************************************************************************)
flat == <<0, 7, 3, 6, 2, 5, 1, 4>>

sharp == <<0, 4, 1, 5, 2, 6, 3, 7>>

\* tuple(a) after the steps 0..n of the inner loop
KeyTable(n, x) ==
    [i \in 0..7 |->
       IF \E m \in 0..n : (IF x = -1 THEN flat ELSE sharp)[m + 1] = i
       THEN x ELSE 0]

\* key = (4 * x * n) % 7 + 1
KeyTonic(n, x) == ((4 * x * n) % 7) + 1

KeyAccidental(n, x) ==
    IF x = -1 /\ n >= 2 THEN -1 ELSE IF x = 1 /\ n >= 6 THEN 1 ELSE 0

sym2key(n, x) == <<KeyTonic(n, x), KeyAccidental(n, x), KeyTable(n, x)>>

\* the position of (n, x) in the order the loops write the tables
LoopOrder(n, x) == (IF x = 1 THEN 8 ELSE 0) + n

\* key2sym.get((tonic, tmp)): the last (n, x) written for it, None if absent
key2sym(tonic, tmp) ==
    LET hits == {nx \in (0..7) \X {-1, 1} :
                   KeyTonic(nx[1], nx[2]) = tonic
                   /\ KeyAccidental(nx[1], nx[2]) = tmp}
    IN  IF hits = {} THEN None
        ELSE Some(CHOOSE nx \in hits :
                    \A o \in hits : LoopOrder(o[1], o[2]) <= LoopOrder(nx[1], nx[2]))

KeyResult(e, k) == [err |-> e, key |-> k]

\* parse_key for a string without digits
ParseLetterKey(s) ==
    LET last == s[Len(s)]
    IN  IF last \notin DOMAIN UpperLetter
        THEN KeyResult("ValueError: wrong format for <key>", NoKey)
        ELSE IF Len(s) = 2 /\ s[1] \notin {"#", "$"}
        THEN KeyResult("ValueError: wrong format for <key>", NoKey)
        ELSE
          LET tonic == key_dict[UpperLetter[last]]
              tmp == IF Len(s) # 2 THEN 0 ELSE IF s[1] = "#" THEN 1 ELSE -1
              sym == key2sym(tonic, tmp)
          IN  IF sym = None THEN KeyResult("KeyError", NoKey)
              ELSE KeyResult("none",
                     MovableKey(<<tonic, tmp, KeyTable(Val(sym)[1], Val(sym)[2])>>))

\* parse_key for a string that contains a digit
ParseDigitKey(s) ==
    IF Len(s) = 1
    THEN IF s[1] # "0"
         THEN KeyResult("ValueError: wrong format for <key>", NoKey)
         ELSE KeyResult("none", MovableKey(<<1, 0>>))
    ELSE IF Len(s) # 2 \/ s[1] \notin {"0", "1", "2", "3", "4", "5", "6", "7"}
            \/ s[2] \notin {"#", "$"}
    THEN KeyResult("ValueError: wrong format for <key>", NoKey)
    ELSE KeyResult("none",
           MovableKey(sym2key(DigitValue[s[1]], IF s[2] = "#" THEN 1 ELSE -1)))

\* parse_key(s): [err, key]
parse_key(s) ==
    IF s = <<>> THEN KeyResult("ValueError: empty key", NoKey)
    ELSE IF s = <<"s", "o", "l", "f", "a">> THEN KeyResult("none", SolfaKey)
    ELSE IF \E i \in DOMAIN s : s[i] \in DOMAIN DigitValue THEN ParseDigitKey(s)
    ELSE ParseLetterKey(s)

(***************************************************************************)
(* parse_pitch on a string.  The regular expression must match the whole   *)
(* string: an optional accidental symbol (one of # $ %), one name          *)
(* character (a digit or a letter), then any number of octave marks (the   *)
(* apostrophe and the comma).                                              *)
(***************************************************************************)
Letters ==
    {"a", "b", "c", "d", "e", "f", "g", "h", "i", "j", "k", "l", "m", "n",
     "o", "p", "q", "r", "s", "t", "u", "v", "w", "x", "y", "z",
     "A", "B", "C", "D", "E", "F", "G", "H", "I", "J", "K", "L", "M", "N",
     "O", "P", "Q", "R", "S", "T", "U", "V", "W", "X", "Y", "Z"}

\* re.fullmatch(...).groups() as a Pitch, None when the string does not match
PitchMatch(s) ==
    LET sym == s # <<>> /\ s[1] \in {"#", "$", "%"}
        rest == IF sym THEN Tail(s) ELSE s
    IN  IF rest = <<>> \/ rest[1] \notin DOMAIN DigitValue \cup Letters
           \/ \E i \in 2..Len(rest) : rest[i] \notin {"'", ","}
        THEN None
        ELSE Some(Pitch(IF sym THEN s[1] ELSE "", rest[1], Tail(rest)))

\* parse_pitch(key, s) for a string s
parse_pitch_text(k, s) ==
    Let(PitchMatch(s), LAMBDA m :
      IF m = None
      THEN PitchResult("ValueError: wrong format for pitch", None, 0, 0)
      ELSE parse_pitch(k, Val(m)))

\* song.key = parse_key(arg.key), the <key> line of load_song
ParseKey ==
    /\ pc = "key"
    /\ arg.key # None
    /\ \E r \in {parse_key(Val(arg.key))} :
           /\ err' = r.err
           /\ pc' = IF r.err = "none" THEN "pitch" ELSE "key_raised"
           /\ key' = r.key
    /\ UNCHANGED <<splitVars, arg, ret, blocks, melody, lyrics, sections>>

\* a melody file without a <key> line: song.key stays None
NoKeyLine ==
    /\ pc = "key"
    /\ arg.key = None
    /\ pc' = "pitch"
    /\ UNCHANGED <<splitVars, err, arg, ret, songVars>>

\* ret = parse_pitch(song.key, arg.text)
ParsePitch ==
    /\ pc = "pitch"
    /\ \E r \in {parse_pitch_text(key, arg.text)} :
           /\ err' = r.err
           /\ pc' = IF r.err = "none" THEN "returned" ELSE "raised"
           /\ ret' = IF r.err = "none"
                     THEN Some(<<r.acc, r.name, r.octave>>) ELSE None
    /\ UNCHANGED <<splitVars, arg, songVars>>

(***************************************************************************)
(* The specification of parse_pitch: a <key> line (or none) and one pitch  *)
(* string.                                                                 *)
(***************************************************************************)
MaxMarks == 2

\* the sequences over S of length at most n
RECURSIVE SeqsUpTo(_, _)
SeqsUpTo(S, n) ==
    IF n = 0 THEN {<<>>}
    ELSE LET shorter == SeqsUpTo(S, n - 1)
         IN  shorter \cup {<<x>> \o q : x \in S, q \in {r \in shorter : Len(r) = n - 1}}

KeyLetters == {"A", "B", "C", "D", "E", "F", "G", "c", "a"}

KeyTexts ==
    {<<"s", "o", "l", "f", "a">>, <<"0">>, <<>>, <<"8", "#">>, <<"3">>,
     <<"D", "#">>, <<"a", "b">>, <<"x", "x", "c">>, <<"H">>}
    \cup {<<d, x>> : d \in {"0", "1", "2", "3", "4", "5", "6", "7"}, x \in {"#", "$"}}
    \cup {<<l>> : l \in KeyLetters}
    \cup {<<x, l>> : x \in {"#", "$"}, l \in KeyLetters}

PitchNames ==
    DOMAIN DigitValue \cup DOMAIN UpperLetter
    \cup DOMAIN extended_upper_name_dict \cup DOMAIN extended_lower_name_dict
    \cup {"o", "O", "h", "Z", "-"}

PitchTexts ==
    {a \o <<n>> \o m : a \in {<<>>, <<"#">>, <<"$">>, <<"%">>}, n \in PitchNames,
                       m \in SeqsUpTo({"'", ","}, MaxMarks)}
    \cup {<<>>, <<"#">>, <<"1", "#">>, <<"#", "#", "1">>, <<"1", "'", "1">>}

InitPitch ==
    /\ pc = "key"
    /\ err = "none"
    /\ time = NoTime
    /\ start_beat = FInt(0)
    /\ note = None
    /\ beat = FInt(0)
    /\ subnotes = <<>>
    /\ arg \in [key : {None} \cup {Some(k) : k \in KeyTexts}, text : PitchTexts]
    /\ ret = None
    /\ key = NoKey
    /\ blocks = 0
    /\ melody = <<>>
    /\ lyrics = <<>>
    /\ sections = <<>>

NextPitch == ParseKey \/ NoKeyLine \/ ParsePitch

SpecPitch == InitPitch /\ [][NextPitch]_vars

\* the groups of the pitch string of the state, its written octave and its
\* written accidental
PitchGroups == PitchMatch(arg.text)

WrittenOctave == Count(Val(PitchGroups).marks, "'") - Count(Val(PitchGroups).marks, ",")

WrittenAcc == acc_dict[Val(PitchGroups).acc]

Parsed == pc \in {"returned", "raised"}

\* song.key is a movable key: a tonic, an accidental and, but for '<key> 0',
\* a signature table
MovableNow == ~key.solfa /\ key.tuple # <<>>

ClaimedClass ==
    ("A" :> 6) @@ ("B" :> 7) @@ ("C" :> 1) @@ ("D" :> 2) @@ ("E" :> 3)
    @@ ("F" :> 4) @@ ("G" :> 5) @@ ("a" :> 6) @@ ("b" :> 7) @@ ("c" :> 1)
    @@ ("d" :> 2) @@ ("e" :> 3) @@ ("f" :> 4) @@ ("g" :> 5)

ClaimedDegree(t, c) == ((c - t) % 7) + 1

ClaimedOctave(t, c, w) ==
    IF t <= 4 /\ c < t THEN w - 1 ELSE IF t >= 5 /\ c >= t THEN w + 1 ELSE w

\* the accidental a written in front of pitch class c, relative to the key
ClaimedAcc(c) ==
    IF WrittenAcc = None THEN None
    ELSE Some(Val(WrittenAcc) - key.tuple[3][c])

\* the claimed values are ones parse_pitch can return in this key
InRange(c, oct) ==
    /\ oct \in {-1, 0, 1}
    /\ WrittenAcc = None
       \/ (Len(key.tuple) = 3 /\ Val(ClaimedAcc(c)) \in {-1, 0, 1})

ClaimedDigit ==
    ("1" :> 1) @@ ("2" :> 2) @@ ("3" :> 3) @@ ("4" :> 4) @@ ("5" :> 5)
    @@ ("6" :> 6) @@ ("7" :> 7)

\* C12 as stated: in a movable key a digit token 1..7 is returned as that
\* same degree, for every tonic.
C12_DigitsDirect ==
    (pc = "returned" /\ MovableNow /\ Val(PitchGroups).name \in DOMAIN ClaimedDigit) =>
      Val(ret)[2] = ClaimedDigit[Val(PitchGroups).name]

\* C12: in a movable key a digit token d of 1..7 is taken as pitch class d
\* and resolved like a letter: degree (d - t) mod 7 + 1 with the octave
\* correction, which is the degree d at the written octave when the tonic
\* is 1.
C12_DigitsRelativeToTonic ==
    (Parsed /\ MovableNow /\ PitchGroups # None
       /\ Val(PitchGroups).name \in DOMAIN ClaimedDigit) =>
      LET t == key.tuple[1]
          d == ClaimedDigit[Val(PitchGroups).name]
          oct == ClaimedOctave(t, d, WrittenOctave)
      IN  /\ pc = "returned" =>
                ret = Some(<<ClaimedAcc(d), ClaimedDegree(t, d), oct>>)
          /\ InRange(d, oct) => pc = "returned"
          /\ (pc = "returned" /\ t = 1) =>
                Val(ret)[2] = d /\ Val(ret)[3] = WrittenOctave

\* a digit returned as another degree
C12_Witness ==
    /\ pc = "returned" /\ MovableNow
    /\ Val(PitchGroups).name \in DOMAIN ClaimedDigit
    /\ Val(ret)[2] # ClaimedDigit[Val(PitchGroups).name]

\* C13: in a movable key the tokens '8' and '9' are accepted as the pitch
\* classes 1 and 2 written one octave higher, and resolved relative to the
\* tonic (key A, '8': accidental None, degree 3, octave 1).
C13_EightNineAccepted ==
    (Parsed /\ MovableNow /\ PitchGroups # None /\ Val(PitchGroups).name \in {"8", "9"}) =>
      LET t == key.tuple[1]
          c == IF Val(PitchGroups).name = "8" THEN 1 ELSE 2
          oct == ClaimedOctave(t, c, WrittenOctave + 1)
      IN  InRange(c, oct) =>
            /\ pc = "returned"
            /\ ret = Some(<<ClaimedAcc(c), ClaimedDegree(t, c), oct>>)

ClaimedSolfa ==
    [n \in DOMAIN ClaimedDigit |-> <<ClaimedDigit[n], 0>>]
    @@ ("q" :> <<1, 1>>) @@ ("w" :> <<2, 1>>) @@ ("e" :> <<3, 1>>)
    @@ ("r" :> <<4, 1>>) @@ ("t" :> <<5, 1>>) @@ ("y" :> <<6, 1>>)
    @@ ("u" :> <<7, 1>>) @@ ("8" :> <<1, 1>>) @@ ("9" :> <<2, 1>>)
    @@ ("z" :> <<1, -1>>) @@ ("x" :> <<2, -1>>) @@ ("c" :> <<3, -1>>)
    @@ ("v" :> <<4, -1>>) @@ ("b" :> <<5, -1>>) @@ ("n" :> <<6, -1>>)
    @@ ("m" :> <<7, -1>>)

RestNames == {"0", "o", "O"}

\* C14: in solfa mode the digits 1..7 are the degrees 1..7 at the written
\* octave, q w e r t y u the degrees one octave up, z x c v b n m the degrees
\* one octave down, 8 and 9 the degrees 1 and 2 one octave up, the accidental
\* the written one (None when none is written); parse_pitch returns these
\* whenever the octave is one of -1, 0, 1, and every other name character
\* that is no rest fails with the ValueError.
C14_SolfaNames ==
    (Parsed /\ key.solfa /\ PitchGroups # None /\ Val(PitchGroups).name \notin RestNames) =>
      IF Val(PitchGroups).name \in DOMAIN ClaimedSolfa
      THEN LET deg == ClaimedSolfa[Val(PitchGroups).name][1]
               oct == WrittenOctave + ClaimedSolfa[Val(PitchGroups).name][2]
           IN  /\ pc = "returned" => ret = Some(<<WrittenAcc, deg, oct>>)
               /\ oct \in {-1, 0, 1} => pc = "returned"
      ELSE pc = "raised" /\ err = "ValueError: not allowed in <key> solfa"

\* an extended name returned at the octave its shift and a mark give
C14_Witness ==
    /\ pc = "returned" /\ key.solfa
    /\ Val(PitchGroups).name \in {"z", "x", "c", "v", "b", "n", "m"}
    /\ WrittenOctave = 1 /\ Val(ret)[3] = 0 /\ Val(ret)[1] # None

ClaimedRest ==
    ("0" :> REST) @@ ("o" :> REST_AT_END) @@ ("O" :> REST_TO_MATCH_LYRICS)

\* C15: in every key the name '0' is returned as REST, 'o' as REST_AT_END
\* and 'O' as REST_TO_MATCH_LYRICS, with accidental None and octave 0
\* whatever accidental symbol and octave marks are written.
C15_RestsInEveryKey ==
    (Parsed /\ PitchGroups # None /\ Val(PitchGroups).name \in RestNames) =>
      /\ pc = "returned"
      /\ ret = Some(<<None, ClaimedRest[Val(PitchGroups).name], 0>>)

\* a rest written with an accidental and octave marks in a movable key
C15_Witness ==
    /\ pc = "returned" /\ MovableNow /\ Len(key.tuple) = 3
    /\ Val(PitchGroups).name = "O" /\ WrittenAcc # None /\ WrittenOctave = MaxMarks
    /\ ret = Some(<<None, REST_TO_MATCH_LYRICS, 0>>)

PitchFormatErrors ==
    {"ValueError: wrong format for pitch",
     "ValueError: not allowed in <key> solfa",
     "ValueError: not allowed in key"}

\* C16: for the key solfa and every movable key with its signature table,
\* and every pitch string, parse_pitch either returns an accidental of None,
\* -1, 0, 1, a degree 1..7 or a rest kind and an octave of -1, 0, 1, or fails
\* with the ValueError; it has no other outcome.
C16_ReturnsOrFormatError ==
    (Parsed /\ (key.solfa \/ Len(key.tuple) = 3)) =>
      \/ /\ pc = "returned"
         /\ Val(ret)[1] \in {None, Some(-1), Some(0), Some(1)}
         /\ Val(ret)[2] \in 1..7 \cup {REST, REST_AT_END, REST_TO_MATCH_LYRICS}
         /\ Val(ret)[3] \in {-1, 0, 1}
      \/ pc = "raised" /\ err \in PitchFormatErrors

(***************************************************************************)
(* Song.group_underlines(sections).  A line gets two more members:         *)
(* underlines_list, here the list of the depths 1, 2, ... (the source      *)
(* keeps None at index 0), each a list of underlines <<idx1, idx2>>, and   *)
(* triplets, a list of lists of node indices.                              *)
(***************************************************************************)
GroupState(e, underlines, triplets, duration, bt, prev) ==
    [err |-> e, underlines_list |-> underlines, triplets |-> triplets,
     triplet_duration |-> duration, beat |-> bt, idx_prev |-> prev]

\* '# triplet': a note at a beat that starts a group of beats
new_group(t, bt) ==
    \/ t.lower = 4 /\ FMod(bt, FInt(1)) = FInt(0)
    \/ t.lower = 8 /\ FMod(bt, Fraction(3, 2)) = FInt(0)

\* the triplets and the triplet duration after the note idx of duration dur
GroupTriplet(st, new, idx, dur) ==
    Let(IF new THEN None ELSE st.triplet_duration, LAMBDA td :
      IF dur.d % 3 # 0 THEN [st EXCEPT !.triplet_duration = td]
      ELSE IF new \/ st.triplets = <<>> \/ Some(dur) # td
      THEN IF st.triplets # <<>> /\ Len(st.triplets[Len(st.triplets)]) # 3
           THEN [st EXCEPT !.err = "ValueError: triplet with less than 3 notes"]
           ELSE [st EXCEPT !.triplets = Append(@, <<idx>>),
                           !.triplet_duration = Some(dur)]
      ELSE IF Len(st.triplets[Len(st.triplets)]) = 3
      THEN [st EXCEPT !.triplets = Append(@, <<idx>>),
                      !.triplet_duration = Some(dur)]
      ELSE [st EXCEPT !.triplets[Len(st.triplets)] = Append(@, idx),
                      !.triplet_duration = Some(dur)])

\* UnderlineLevel without the test of new_group
UnderlineLevel_NoBoundary(level, new, idx, idx_prev) ==
    IF level = <<>> THEN Append(level, <<idx, idx>>)
    ELSE IF level[Len(level)][2] = idx_prev
    THEN [level EXCEPT ![Len(level)][2] = idx]
    ELSE Append(level, <<idx, idx>>)

\* the underlines of one depth after the note idx
UnderlineLevel(level, new, idx, idx_prev) ==
    IF new \/ level = <<>> THEN Append(level, <<idx, idx>>)
    ELSE IF level[Len(level)][2] = idx_prev
    THEN [level EXCEPT ![Len(level)][2] = idx]
    ELSE Append(level, <<idx, idx>>)

\* '# underline': underlines_list after the note idx with depth underlines
GroupUnderline(underlines, new, idx, idx_prev, depth) ==
    [k \in 1..Max({Len(underlines), depth}) |->
       IF k > depth THEN underlines[k]
       ELSE UnderlineLevel(IF k <= Len(underlines) THEN underlines[k] ELSE <<>>,
                           new, idx, idx_prev)]

\* the body of 'for idx in idx_list'
GroupNode(st, nodes, t, idx) ==
    IF nodes[idx + 1].type # "NOTE" THEN st
    ELSE
      Let(new_group(t, st.beat), LAMBDA new :
      Let(GroupTriplet(st, new, idx, Val(nodes[idx + 1].value).duration), LAMBDA st1 :
        IF st1.err # "none" THEN st1
        ELSE [st1 EXCEPT
                !.underlines_list =
                    IF Val(nodes[idx + 1].lines) < 0
                    THEN GroupUnderline(@, new, idx, st.idx_prev,
                                        -Val(nodes[idx + 1].lines))
                    ELSE @,
                !.beat = FAdd(@, Val(nodes[idx + 1].value).duration),
                !.idx_prev = idx]))

RECURSIVE GroupNodes(_, _, _, _, _)
GroupNodes(st, nodes, t, idx_list, i) ==
    IF st.err # "none" \/ i > Len(idx_list) THEN st
    ELSE GroupNodes(GroupNode(st, nodes, t, idx_list[i]), nodes, t, idx_list, i + 1)

\* 'for time, start_beat, idx_list in bars'
RECURSIVE GroupBars(_, _, _)
GroupBars(st, line, b) ==
    IF st.err # "none" \/ b > Len(line.bars) THEN st
    ELSE GroupBars(
           GroupNodes([st EXCEPT !.beat = line.bars[b].beat, !.idx_prev = -9],
                      line.nodes, line.bars[b].time, line.bars[b].idx, 1),
           line, b + 1)

\* the body of 'for line in lines': [err, line]
GroupLine(line) ==
    Let(GroupBars(GroupState("none", <<>>, <<>>, None, FInt(0), -9), line, 1),
        LAMBDA st :
      [err |-> st.err,
       line |-> [nodes |-> line.nodes, bars |-> line.bars, ties |-> line.ties,
                 slurs |-> line.slurs, underlines_list |-> st.underlines_list,
                 triplets |-> st.triplets]])

\* the lines of all sections in the order group_underlines visits them
RECURSIVE AllLines(_)
AllLines(secs) ==
    IF secs = <<>> THEN <<>> ELSE Head(secs).lines \o AllLines(Tail(secs))

\* group_underlines(sections): [err, sections]; the first line that fails
\* ends the call
group_underlines(secs) ==
    Let([i \in 1..Len(secs) |->
           [j \in 1..Len(secs[i].lines) |-> GroupLine(secs[i].lines[j])]],
        LAMBDA done :
      Let(SelectSeq(AllLines([i \in 1..Len(secs) |-> [lines |-> done[i]]]),
                    LAMBDA r : r.err # "none"), LAMBDA failed :
        IF failed # <<>> THEN [err |-> failed[1].err, sections |-> secs]
        ELSE [err |-> "none",
              sections |-> [i \in 1..Len(secs) |->
                              Section(secs[i].tag,
                                      [j \in 1..Len(secs[i].lines) |->
                                         done[i][j].line])]]))

\* to_tex_tikzpicture: self.group_underlines(sections)
GroupUnderlines ==
    /\ pc = "merged"
    /\ \E r \in {group_underlines(sections)} :
           /\ sections' = r.sections
           /\ err' = r.err
           /\ pc' = IF r.err # "none" THEN "group_raised" ELSE "grouped"
    /\ UNCHANGED <<splitVars, callVars, key, blocks, melody, lyrics>>

(***************************************************************************)
(* Specification SpecUnderlines: load_song on a melody with triplets and a *)
(* lyrics file of one section, then merge_melody_lyrics and                *)
(* group_underlines.                                                       *)
(***************************************************************************)
MaxGroupItems == 4

\* '1', '1_', '1_/3', '1=/3'
GroupTokens ==
    {Plain("1", 0, 0, 0, FALSE, FALSE), Plain("1", 0, 1, 0, FALSE, FALSE),
     Token(FALSE, <<Pitch("", "1", <<>>)>>, FALSE, 0, 1, 0, TRUE, FALSE),
     Token(FALSE, <<Pitch("", "1", <<>>)>>, FALSE, 0, 2, 0, TRUE, FALSE)}

GroupTimes == {Time(Some(2), 4, None), Time(Some(6), 8, None)}

\* n lyric characters
Chars(n) == [i \in 1..n |-> "a"]

\* a section of one line, or of two lines
GroupFiles ==
    {<<TagLine("A"), TextLine(Chars(n))>> : n \in 1..MaxGroupItems}
    \cup {<<TagLine("A"), TextLine(Chars(n)), TextLine(Chars(m))>> :
            n \in 1..MaxGroupItems, m \in 1..MaxGroupItems}

LoadGroupMelody ==
    \E t \in GroupTimes, s \in Texts(GroupTokens, MaxGroupItems) :
      AppendTimeSignature(t, s)

LoadGroupLyrics == \E file \in GroupFiles : LoadLyrics(file)

NextUnderlines ==
    \/ LoadGroupMelody
    \/ MakeTiesConsistent
    \/ TrySplitNotes
    \/ LoadGroupLyrics
    \/ MergeMelodyLyrics
    \/ GroupUnderlines

SpecUnderlines == InitSong /\ [][NextUnderlines]_vars

\* C17: after group_underlines has succeeded every triplet of every line has
\* exactly 3 member node indices (a group that ends with fewer than 3 notes
\* makes group_underlines fail instead).
C17_TripletsComplete ==
    pc = "grouped" =>
      \A i \in DOMAIN sections : \A j \in DOMAIN sections[i].lines :
        \A k \in DOMAIN sections[i].lines[j].triplets :
          Len(sections[i].lines[j].triplets[k]) = 3

(***************************************************************************)
(* writer.py: Curve and LatexWriter._calc_distance(curves, nodes).  A node *)
(* range has a kind (the class Tie, Slur or Triplet), a start and an end   *)
(* node index; nodes is the list of the octaves of the line's notes.       *)
(* dis_x is counted in steps of 0.2.                                       *)
(***************************************************************************)
NodeRange(kind, start, end) == [kind |-> kind, start |-> start, end |-> end]

\* Triplet of three node indices: it starts at the first and ends at the last
Triplet(idx) == NodeRange("Triplet", idx[1], idx[3])

\* Curve(node_range)
Curve(range) ==
    [range |-> range, hidden |-> FALSE, dis_y |-> None, dis_x |-> None,
     dis_y_middle |-> None]

equals(c, other) ==
    c.range.start = other.range.start /\ c.range.end = other.range.end

contains(c, other) ==
    c.range.start <= other.range.start /\ other.range.end <= c.range.end

contains_properly(c, other) ==
    c.range.start < other.range.start /\ other.range.end < c.range.end

intersects(c, other) ==
    c.range.start < other.range.end /\ other.range.start < c.range.end

crosses(c, other) ==
    intersects(c, other) /\ ~contains(c, other) /\ ~contains(other, c)

\* the body of 'for c0, c1 in itertools.combinations(curves, 2)' for the
\* curves at i < j: [err, curves]
HidePair_TiesToo(st, i, j) ==
    IF st.curves[j].range.kind # "Triplet" THEN st
    ELSE IF ~(contains(st.curves[i], st.curves[j]) \/ crosses(st.curves[i], st.curves[j]))
    THEN st
    ELSE [st EXCEPT !.curves[i].hidden = TRUE]

HidePair(st, i, j) ==
    IF st.curves[j].range.kind # "Triplet" THEN st
    ELSE IF ~(contains(st.curves[i], st.curves[j]) \/ crosses(st.curves[i], st.curves[j]))
    THEN st
    ELSE IF st.curves[i].range.kind = "Slur"
    THEN [st EXCEPT !.curves[i].hidden = TRUE]
    ELSE [st EXCEPT !.err = "ValueError: " \o st.curves[i].range.kind
                            \o (IF contains(st.curves[i], st.curves[j])
                                THEN " contains" ELSE " crosses")
                            \o " a triplet"]

\* the pairs from (i, j) on, in the order of itertools.combinations
RECURSIVE HidePairs(_, _, _)
HidePairs(st, i, j) ==
    IF st.err # "none" \/ i >= Len(st.curves) THEN st
    ELSE IF j > Len(st.curves) THEN HidePairs(st, i + 1, i + 2)
    ELSE HidePairs(HidePair(st, i, j), i, j + 1)

\* dis = 2, dis_middle = 9, both 3 more when an end note is in a high octave
HighEnd(c, nodes) ==
    nodes[c.range.start + 1] >= 1 \/ nodes[c.range.end + 1] >= 1

BaseDisY(c, nodes) == IF HighEnd(c, nodes) THEN 5 ELSE 2

BaseDisYMiddle(c, nodes) == IF HighEnd(c, nodes) THEN 12 ELSE 9

\* calc_dis_y(k): [err, dis]; DisYLoop is its 'for kk, cc in enumerate(curves)'
RECURSIVE calc_dis_y(_, _, _)
RECURSIVE DisYLoop(_, _, _, _, _)
DisYLoop_SharedEndSameHeight(curves, nodes, k, kk, dis) ==
    IF kk > Len(curves) THEN [err |-> "none", dis |-> Some(dis)]
    ELSE IF kk = k \/ curves[kk].hidden
    THEN DisYLoop(curves, nodes, k, kk + 1, dis)
    ELSE IF equals(curves[k], curves[kk])
    THEN [err |-> "ValueError: duplicate curves", dis |-> None]
    ELSE IF contains(curves[k], curves[kk])
    THEN Let(calc_dis_y(curves, nodes, kk), LAMBDA r :
           IF r.err # "none" THEN r
           ELSE DisYLoop(curves, nodes, k, kk + 1, Max({dis, Val(r.dis)})))
    ELSE DisYLoop(curves, nodes, k, kk + 1, dis)

DisYLoop(curves, nodes, k, kk, dis) ==
    IF kk > Len(curves) THEN [err |-> "none", dis |-> Some(dis)]
    ELSE IF kk = k \/ curves[kk].hidden
    THEN DisYLoop(curves, nodes, k, kk + 1, dis)
    ELSE IF equals(curves[k], curves[kk])
    THEN [err |-> "ValueError: duplicate curves", dis |-> None]
    ELSE IF contains_properly(curves[k], curves[kk])
    THEN Let(calc_dis_y(curves, nodes, kk), LAMBDA r :
           IF r.err # "none" THEN r
           ELSE DisYLoop(curves, nodes, k, kk + 1, Max({dis, Val(r.dis)})))
    ELSE IF contains(curves[k], curves[kk])
    THEN Let(calc_dis_y(curves, nodes, kk), LAMBDA r :
           IF r.err # "none" THEN r
           ELSE DisYLoop(curves, nodes, k, kk + 1, Max({dis, Val(r.dis) + 1})))
    ELSE DisYLoop(curves, nodes, k, kk + 1, dis)

calc_dis_y(curves, nodes, k) ==
    IF curves[k].hidden THEN [err |-> "none", dis |-> None]
    ELSE DisYLoop(curves, nodes, k, 1, BaseDisY(curves[k], nodes))

\* calc_dis_x(k), in steps of 0.2; DisXLoop is its loop
RECURSIVE calc_dis_x(_, _)
RECURSIVE DisXLoop(_, _, _, _)

\* DisXLoop that looks only at the curves listed before curve k
RECURSIVE DisXLoop_OnlyEarlier(_, _, _, _)
DisXLoop_OnlyEarlier(curves, k, kk, dis) ==
    IF kk >= k THEN dis
    ELSE IF curves[kk].hidden THEN DisXLoop_OnlyEarlier(curves, k, kk + 1, dis)
    ELSE IF contains(curves[kk], curves[k]) /\ ~contains_properly(curves[kk], curves[k])
    THEN DisXLoop_OnlyEarlier(curves, k, kk + 1,
                              Max({dis, Val(calc_dis_x(curves, kk)) + 1}))
    ELSE DisXLoop_OnlyEarlier(curves, k, kk + 1, dis)

DisXLoop(curves, k, kk, dis) ==
    IF kk > Len(curves) THEN dis
    ELSE IF kk = k \/ curves[kk].hidden THEN DisXLoop(curves, k, kk + 1, dis)
    ELSE IF contains(curves[kk], curves[k]) /\ ~contains_properly(curves[kk], curves[k])
    THEN DisXLoop(curves, k, kk + 1, Max({dis, Val(calc_dis_x(curves, kk)) + 1}))
    ELSE DisXLoop(curves, k, kk + 1, dis)

calc_dis_x(curves, k) ==
    IF curves[k].hidden THEN None ELSE Some(DisXLoop(curves, k, 1, 1))

\* 'for i in range(len(curves)): calc_dis_y(i)': the first error ends it
RECURSIVE DisYAll(_, _, _)
DisYAll(st, nodes, i) ==
    IF st.err # "none" \/ i > Len(st.curves) THEN st
    ELSE Let(calc_dis_y(st.curves, nodes, i), LAMBDA r :
           IF r.err # "none" THEN [st EXCEPT !.err = r.err]
           ELSE DisYAll(
                  [st EXCEPT !.curves[i].dis_y = r.dis,
                             !.curves[i].dis_y_middle =
                                 IF r.dis # None /\ st.curves[i].range.kind = "Triplet"
                                 THEN Some(BaseDisYMiddle(st.curves[i], nodes))
                                 ELSE None],
                  nodes, i + 1))

\* _calc_distance(curves, nodes): [err, curves]
_calc_distance(curves, nodes) ==
    Let(DisYAll(HidePairs([err |-> "none", curves |-> curves], 1, 2), nodes, 1),
        LAMBDA st :
      IF st.err # "none" THEN st
      ELSE [st EXCEPT !.curves =
              [i \in 1..Len(st.curves) |->
                 [st.curves[i] EXCEPT !.dis_x = calc_dis_x(st.curves, i)]]])

\* _save_line: curves = ties + slurs + triplets, each wrapped in a Curve,
\* then self._calc_distance(curves, nodes)
CalcDistance ==
    /\ pc = "curves"
    /\ \E r \in {_calc_distance(
                   [i \in 1..Len(arg.ties) |-> Curve(arg.ties[i])]
                   \o [i \in 1..Len(arg.slurs) |-> Curve(arg.slurs[i])]
                   \o [i \in 1..Len(arg.triplets) |-> Curve(arg.triplets[i])],
                   arg.nodes)} :
           /\ err' = r.err
           /\ pc' = IF r.err = "none" THEN "placed" ELSE "place_raised"
           /\ ret' = Some(r.curves)
    /\ UNCHANGED <<splitVars, arg, songVars>>

(***************************************************************************)
(* Specification SpecCurves: the ties, slurs and triplets of one line of   *)
(* MaxCurveNodes notes.                                                    *)
(***************************************************************************)
MaxCurveNodes == 4

\* the lists over S of at most n members
ListsUpTo(S, n) == UNION {[1..m -> S] : m \in 0..n}

Ranges(kind) ==
    {NodeRange(kind, a, b) : a \in 0..(MaxCurveNodes - 1), b \in 0..(MaxCurveNodes - 1)}

CurveTies == ListsUpTo({r \in Ranges("Tie") : r.start < r.end}, 1)

CurveSlurs == ListsUpTo({r \in Ranges("Slur") : r.start < r.end}, 2)

CurveTriplets ==
    ListsUpTo({Triplet(<<a, a + 1, a + 2>>) : a \in 0..(MaxCurveNodes - 3)}, 2)

\* the octaves of the notes: all 0, or the first or the last note high
CurveNodes ==
    {[i \in 1..MaxCurveNodes |-> IF i = h THEN 1 ELSE 0] : h \in {0, 1, MaxCurveNodes}}

InitCurves ==
    /\ pc = "curves"
    /\ err = "none"
    /\ time = NoTime
    /\ start_beat = FInt(0)
    /\ note = None
    /\ beat = FInt(0)
    /\ subnotes = <<>>
    /\ arg \in [ties : CurveTies, slurs : CurveSlurs, triplets : CurveTriplets,
                nodes : CurveNodes]
    /\ ret = None
    /\ key = SolfaKey
    /\ blocks = 0
    /\ melody = <<>>
    /\ lyrics = <<>>
    /\ sections = <<>>

NextCurves == CalcDistance

SpecCurves == InitCurves /\ [][NextCurves]_vars

\* the curves _calc_distance has worked on
Curves == Val(ret)

\* the curve c, no triplet, contains or crosses the triplet t
Conflict(c, t) ==
    /\ t.range.kind = "Triplet" /\ c.range.kind # "Triplet"
    /\ contains(c, t) \/ crosses(c, t)

InConflict(i) == \E j \in DOMAIN Curves : Conflict(Curves[i], Curves[j])

\* C18: when a Tie contains or crosses a Triplet, _calc_distance fails with
\* the ValueError; when it succeeds every Slur that contains or crosses a
\* Triplet is hidden and has neither dis_y nor dis_x; and a curve that is in
\* no such pair is never hidden.
C18_TripletConflicts ==
    (pc \in {"placed", "place_raised"}) =>
      /\ (\E i \in DOMAIN Curves : Curves[i].range.kind = "Tie" /\ InConflict(i)) =>
           /\ pc = "place_raised"
           /\ err \in {"ValueError: Tie contains a triplet",
                       "ValueError: Tie crosses a triplet"}
      /\ pc = "placed" =>
           \A i \in DOMAIN Curves :
             (Curves[i].range.kind = "Slur" /\ InConflict(i)) =>
               /\ Curves[i].hidden
               /\ Curves[i].dis_y = None /\ Curves[i].dis_x = None
      /\ \A i \in DOMAIN Curves : Curves[i].hidden => InConflict(i)

\* a slur hidden by a triplet next to a tie and a slur that stay visible
C18_Witness ==
    /\ pc = "placed"
    /\ \E i, j, k \in DOMAIN Curves :
         /\ Curves[i].hidden /\ crosses(Curves[i], Curves[j])
         /\ Curves[j].range.kind = "Triplet"
         /\ Curves[k].range.kind = "Slur" /\ ~Curves[k].hidden
    /\ \E i \in DOMAIN Curves : Curves[i].range.kind = "Tie"

Visible(i) == ~Curves[i].hidden

\* the visible curves alone, as new curves
VisibleOnly ==
    [i \in 1..Len(SelectSeq(Curves, LAMBDA c : ~c.hidden)) |->
       Curve(SelectSeq(Curves, LAMBDA c : ~c.hidden)[i].range)]

\* C19: after _calc_distance has succeeded, for distinct visible curves a
\* and b: dis_y(a) >= dis_y(b) when a properly contains b, dis_y(a) >=
\* dis_y(b) + 1 when a contains b and shares an end with it; a visible curve
\* that contains no other visible curve has its base dis_y (2, or 5 with a
\* high end note); and the dis_y of the visible curves are those the visible
\* curves get without the hidden ones.
C19_DisYOrder ==
    pc = "placed" =>
      /\ \A a, b \in DOMAIN Curves :
           (a # b /\ Visible(a) /\ Visible(b)) =>
             /\ contains_properly(Curves[a], Curves[b]) =>
                  Val(Curves[a].dis_y) >= Val(Curves[b].dis_y)
             /\ (contains(Curves[a], Curves[b])
                   /\ ~contains_properly(Curves[a], Curves[b])) =>
                  Val(Curves[a].dis_y) >= Val(Curves[b].dis_y) + 1
      /\ \A a \in DOMAIN Curves :
           (Visible(a) /\ \A b \in DOMAIN Curves :
                            (b # a /\ Visible(b)) => ~contains(Curves[a], Curves[b])) =>
             Curves[a].dis_y = Some(IF HighEnd(Curves[a], arg.nodes) THEN 5 ELSE 2)
      /\ Let(_calc_distance(VisibleOnly, arg.nodes), LAMBDA alone :
           /\ alone.err = "none"
           /\ [i \in DOMAIN alone.curves |-> alone.curves[i].dis_y]
                = [i \in DOMAIN VisibleOnly |->
                     SelectSeq(Curves, LAMBDA c : ~c.hidden)[i].dis_y])

\* a hidden slur around a visible curve that is raised by a curve it
\* contains and shares an end with
C19_Witness ==
    /\ pc = "placed"
    /\ \E h, a, b \in DOMAIN Curves :
         /\ Curves[h].hidden /\ Visible(a) /\ Visible(b) /\ a # b
         /\ contains(Curves[h], Curves[a])
         /\ contains(Curves[a], Curves[b])
         /\ Curves[b].dis_y = Some(2) /\ Curves[a].dis_y = Some(3)

(***************************************************************************)
(* The start beat of a bar text, read from the bars of Song.melody that    *)
(* append_time_signature made of it.                                       *)
(***************************************************************************)
\* the bar texts of the loaded text, as s.split('|') gives them
BarTextsOf == SplitBarLines(arg)

\* the bars of Song.melody made of bar text i
MelodyBarsOf(i) == {b \in 1..Len(melody) : melody[b].text[2] = i}

\* the beat at which the first note of bar text i was placed
StartBeatOf(i) == melody[Min(MelodyBarsOf(i))].beat

RECURSIVE SumOver(_, _)
SumOver(f(_), S) ==
    IF S = {} THEN FInt(0)
    ELSE LET x == CHOOSE y \in S : TRUE IN FAdd(f(x), SumOver(f, S \ {x}))

\* the written duration of bar text i: its notes' durations, pieces included
WrittenDuration(i) ==
    SumOver(LAMBDA b : FSum(Durations(melody[b].notes)), MelodyBarsOf(i))

\* the bar texts that hold notes
NonEmptyTexts == {i \in 1..Len(BarTextsOf) : BarTextsOf[i] # <<>>}

\* the bar capacity T under which bar text i was placed
CapacityOf(i) ==
    BarCapacity(melody[Min(MelodyBarsOf(i))].time, WrittenDuration(i))

\* (T - D mod T) mod T for bar text i
PickupBeat(i) ==
    Let(CapacityOf(i), LAMBDA T :
      FMod(FSub(T, FMod(WrittenDuration(i), T)), T))

TextPieces(i) == Flatten(SelectSeq(melody, LAMBDA b : b.text[2] = i))

\* the note_list of bar text i
TextNotes(i) == BarNotes(key, melody[1].time, BarTextsOf[i]).notes

\* how many leading notes of pieces last d together; 0 when no prefix does
PieceCount(pieces, d) ==
    Let({k \in 1..Len(pieces) : FSum(Durations(SubSeq(pieces, 1, k))) = d},
        LAMBDA ks : IF ks = {} THEN 0 ELSE Min(ks))

\* pieces cut into one run of pieces for every note of notes
RECURSIVE GroupPieces(_, _)
GroupPieces(notes, pieces) ==
    IF notes = <<>> THEN <<>>
    ELSE Let(PieceCount(pieces, Head(notes).duration), LAMBDA k :
           <<SubSeq(pieces, 1, k)>>
             \o GroupPieces(Tail(notes), SubSeq(pieces, k + 1, Len(pieces))))

\* the number of pieces in a list of runs
RECURSIVE CountPieces(_)
CountPieces(runs) == IF runs = <<>> THEN 0 ELSE Len(Head(runs)) + CountPieces(Tail(runs))

\* the pieces of every note of bar text i
PiecesOf(i) == GroupPieces(TextNotes(i), TextPieces(i))

\* a melody loaded under a time signature with hyphen
HyphenLoaded == pc = "loaded" /\ melody # <<>> /\ melody[1].time.hyphen # None

\* the pieces of every written note follow one another, sum to the note's
\* duration, and every piece but the first has tie[0] set
PiecesSumAndBackTied ==
    HyphenLoaded =>
      \A i \in NonEmptyTexts :
        /\ Len(PiecesOf(i)) = Len(TextNotes(i))
        /\ \A g \in 1..Len(PiecesOf(i)) :
             /\ Len(PiecesOf(i)[g]) >= 1
             /\ FSum(Durations(PiecesOf(i)[g])) = TextNotes(i)[g].duration
             /\ \A j \in 2..Len(PiecesOf(i)[g]) : PiecesOf(i)[g][j].tie[0]
        /\ Len(TextPieces(i)) = CountPieces(PiecesOf(i))

\* C21 as claimed: under a time signature with hyphen, the pieces a note is
\* cut into at bar boundaries sum to the note's duration, every piece but the
\* first has tie[0] set and every piece but the last has tie[1] set.
C21_PiecesLinkedByTies ==
    /\ PiecesSumAndBackTied
    /\ HyphenLoaded =>
         \A i \in NonEmptyTexts :
           \A g \in 1..Len(PiecesOf(i)) :
             \A j \in 1..(Len(PiecesOf(i)[g]) - 1) : PiecesOf(i)[g][j].tie[1]

(***************************************************************************)
(* Specification SpecLines: load_song on a melody with tied notes, notes   *)
(* cut at a bar line and rests at the end, and a lyrics file of two lines  *)
(* in one section or in two, then merge_melody_lyrics.                     *)
(***************************************************************************)
MaxLineItems == 3

\* '1', '1~', '1--', 'o'
LineTokens ==
    {Plain("1", 0, 0, 0, FALSE, FALSE), Plain("1", 0, 0, 0, FALSE, TRUE),
     Plain("1", 2, 0, 0, FALSE, FALSE), Plain("o", 0, 0, 0, FALSE, FALSE)}

LineTimes == {Time(Some(2), 4, Some(4)), Time(Some(2), 4, None)}

LineChars == {1, 2}

LineFiles ==
    {<<TagLine("A"), TextLine(Chars(n)), TextLine(Chars(m))>> :
        n \in LineChars, m \in LineChars}
    \cup {<<TagLine("A"), TextLine(Chars(n)), TagLine("B"), TextLine(Chars(m))>> :
            n \in LineChars, m \in LineChars}

LoadLineMelody ==
    \E t \in LineTimes, s \in Texts(LineTokens, MaxLineItems) :
      AppendTimeSignature(t, s)

LoadLineLyrics == \E file \in LineFiles : LoadLyrics(file)

NextLines ==
    \/ LoadLineMelody
    \/ MakeTiesConsistent
    \/ TrySplitNotes
    \/ LoadLineLyrics
    \/ MergeMelodyLyrics

SpecLines == InitSong /\ [][NextLines]_vars

\* the notes the NOTE nodes of a line hold
LineNotes(line) ==
    Let(SelectSeq(line.nodes, LAMBDA nd : nd.type = "NOTE"), LAMBDA nn :
      [i \in 1..Len(nn) |-> Val(nn[i].value)])

\* the lyric cursor before the note at place p of the melody
CursorBefore(notes, p) ==
    Len(SelectSeq(SubSeq(notes, 1, p - 1), LAMBDA nt : to_match_lyrics(nt)))

\* the places of the melody at which a pending boundary is honoured: the
\* first note that may start a line once the cursor stands on a line start
BoundaryPlaces(notes, lyr) ==
    {p \in 1..Len(notes) :
       /\ may_start_new_line(notes[p])
       /\ CursorBefore(notes, p) \in split_lines(lyr, 0)
       /\ \A q \in 1..(p - 1) :
            CursorBefore(notes, q) = CursorBefore(notes, p)
              => ~may_start_new_line(notes[q])}

\* the places of the melody at which the lines of the output begin
RECURSIVE LinePlaces(_, _)
LinePlaces(lines, p) ==
    IF lines = <<>> THEN {}
    ELSE {p} \cup LinePlaces(Tail(lines), p + Len(LineNotes(Head(lines))))

\* C22: in the output of merge_melody_lyrics the notes keep their order, a
\* line begins exactly at the first note that may start a line after the
\* lyric cursor has reached a line start (never at a tied-from-previous note
\* or a REST_AT_END, which stay in the open line), and every tie of a line
\* joins two note nodes of that line with 0 <= start < end.
C22_BoundariesDeferred ==
    pc = "merged" =>
      /\ Join([i \in 1..Len(AllLines(sections)) |-> LineNotes(AllLines(sections)[i])])
           = Flatten(melody)
      /\ LinePlaces(AllLines(sections), 1) = BoundaryPlaces(Flatten(melody), lyrics)
      /\ \A i \in 1..Len(AllLines(sections)) :
           /\ AllLines(sections)[i].nodes # <<>>
           /\ AllLines(sections)[i].nodes[1].type = "NOTE"
           /\ may_start_new_line(Val(AllLines(sections)[i].nodes[1].value))
           /\ \A k \in 1..Len(AllLines(sections)[i].ties) :
                Let(AllLines(sections)[i], LAMBDA line :
                  /\ 0 <= line.ties[k][1]
                  /\ line.ties[k][1] < line.ties[k][2]
                  /\ line.ties[k][2] < Len(line.nodes)
                  /\ line.nodes[line.ties[k][1] + 1].type = "NOTE"
                  /\ line.nodes[line.ties[k][2] + 1].type = "NOTE")

\* a second line whose start was deferred past a note that may not start a
\* line, after a first line that holds a tie
C22_Witness ==
    /\ pc = "merged"
    /\ Len(AllLines(sections)) = 2
    /\ \E p \in 2..(Len(Flatten(melody)) - 1) :
         /\ CursorBefore(Flatten(melody), p) \in split_lines(lyrics, 0)
         /\ ~may_start_new_line(Flatten(melody)[p])
         /\ p + 1 \in LinePlaces(AllLines(sections), 1)
    /\ AllLines(sections)[1].ties # <<>>

(***************************************************************************)
(* Specification SpecSlurs: load_song on a melody of notes, tied notes and *)
(* rests without bar lines, and a lyrics file with runs of '~', then       *)
(* merge_melody_lyrics.                                                    *)
(***************************************************************************)
MaxSlurItems == 4

\* '1', '1~', '0', 'O'
SlurTokens ==
    {Plain("1", 0, 0, 0, FALSE, FALSE), Plain("1", 0, 0, 0, FALSE, TRUE),
     Plain("0", 0, 0, 0, FALSE, FALSE), Plain("O", 0, 0, 0, FALSE, FALSE)}

SlurTimes == {Time(Some(2), 4, Some(4))}

SlurTexts ==
    {s \in Texts(SlurTokens, MaxSlurItems) : \A i \in 1..Len(s) : s[i] # BarLine}

\* the lines of up to three characters that do not start with '~', the line
\* '~', and three lines of two runs or a long run
SlurLines ==
    {l \in SeqsUpTo({"a", "~", "O"}, 3) : l # <<>> /\ l[1] # "~"}
    \cup {<<"~">>, <<"a", "~", "a", "~">>, <<"a", "~", "O", "~">>,
          <<"a", "~", "~", "~">>}

SlurFiles ==
    {<<TagLine("A"), TextLine(l)>> : l \in SlurLines}
    \cup {<<TagLine("A"), TextLine(l), TextLine(m)>> :
            l \in {<<"a">>, <<"a", "~">>}, m \in {<<"a">>, <<"a", "~">>}}

LoadSlurMelody ==
    \E t \in SlurTimes, s \in SlurTexts : AppendTimeSignature(t, s)

LoadSlurLyrics == \E file \in SlurFiles : LoadLyrics(file)

NextSlurs ==
    \/ LoadSlurMelody
    \/ MakeTiesConsistent
    \/ TrySplitNotes
    \/ LoadSlurLyrics
    \/ MergeMelodyLyrics

SpecSlurs == InitSong /\ [][NextSlurs]_vars

\* the note at place p consumes the last '~' of a run of the lyrics all
SlurEnd(notes, all, p) ==
    /\ ~is_rest(notes[p]) /\ ~notes[p].tie[0]
    /\ Let(CursorBefore(notes, p), LAMBDA c :
         /\ c < Len(all)
         /\ all[c + 1] = "~"
         /\ (c + 1 = Len(all) \/ all[c + 2] # "~"))

\* the place at which the line of the note at place p begins; 0 if none
LineStartOf(notes, lyr, p) ==
    Let({q \in BoundaryPlaces(notes, lyr) : q <= p}, LAMBDA qs :
      IF qs = {} THEN 0 ELSE Max(qs))

\* the places that can be the tracked start when the note at place p is
\* reached: non-rest, not tied-from-previous notes of the same line aligned
\* to a character other than '~', with no rest and no end of a slur since
SlurStarts(notes, lyr, p) ==
    {q \in 1..(p - 1) :
       /\ LineStartOf(notes, lyr, p) # 0
       /\ q >= LineStartOf(notes, lyr, p)
       /\ ~is_rest(notes[q]) /\ ~notes[q].tie[0]
       /\ CursorBefore(notes, q) < Len(all_lyrics(lyr))
       /\ all_lyrics(lyr)[CursorBefore(notes, q) + 1] # "~"
       /\ \A r \in (q + 1)..(p - 1) :
            ~is_rest(notes[r]) /\ ~SlurEnd(notes, all_lyrics(lyr), r)}

\* the index in line.nodes, counted from 0, of the k-th NOTE node
NoteNodeIdx(line, k) ==
    (CHOOSE i \in 1..Len(line.nodes) :
       /\ line.nodes[i].type = "NOTE"
       /\ Cardinality({j \in 1..i : line.nodes[j].type = "NOTE"}) = k) - 1

\* the place in the melody of the first note of line i
RECURSIVE FirstPlace(_, _)
FirstPlace(lines, i) ==
    IF i = 1 THEN 1 ELSE FirstPlace(lines, i - 1) + Len(LineNotes(lines[i - 1]))

\* the slurs the claim gives line i: one for every end of a run in the line
ClaimedSlurs(lines, notes, lyr, i) ==
    {<<NoteNodeIdx(lines[i], Max(SlurStarts(notes, lyr, p)) - FirstPlace(lines, i) + 1),
       NoteNodeIdx(lines[i], p - FirstPlace(lines, i) + 1)>> :
       p \in {pp \in FirstPlace(lines, i)..(FirstPlace(lines, i)
                                            + Len(LineNotes(lines[i])) - 1) :
                SlurEnd(notes, all_lyrics(lyr), pp)}}

\* the number of maximal runs of '~' in all
Runs(all) ==
    Cardinality({i \in 1..Len(all) :
                   all[i] = "~" /\ (i = Len(all) \/ all[i + 1] # "~")})

RECURSIVE CountSlurs(_)
CountSlurs(lines) ==
    IF lines = <<>> THEN 0 ELSE Len(Head(lines).slurs) + CountSlurs(Tail(lines))

\* the places of the ends of runs that have no tracked start
Startless(notes, lyr) ==
    {p \in 1..Len(notes) :
       SlurEnd(notes, all_lyrics(lyr), p) /\ SlurStarts(notes, lyr, p) = {}}

\* the note at place q fails, or ends the loop, before a later note is read
FailsAt(notes, lyr, q) ==
    \/ q = 1 /\ ~may_start_new_line(notes[1])
    \/ NodeInit(notes[q]).err # "none"
    \/ /\ to_match_lyrics(notes[q]) /\ is_rest(notes[q])
       /\ all_lyrics(lyr)[CursorBefore(notes, q) + 1] # "O"

\* C23: when merge_melody_lyrics returns, every end of a run of '~' has a
\* tracked start, the slurs of every line are exactly those from the tracked
\* start to the note that consumes the last '~' of a run, in order, and
\* there are as many slurs as runs; when the first end of a run without a
\* tracked start is reached, the call fails with 'start note of slur not
\* found', and it fails with this error in no other case.
C23_OneSlurPerRun ==
    /\ pc = "merged" =>
         /\ Startless(Flatten(melody), lyrics) = {}
         /\ CountSlurs(AllLines(sections)) = Runs(all_lyrics(lyrics))
         /\ \A i \in 1..Len(AllLines(sections)) :
              Let(AllLines(sections)[i], LAMBDA line :
                /\ {line.slurs[k] : k \in 1..Len(line.slurs)}
                     = ClaimedSlurs(AllLines(sections), Flatten(melody), lyrics, i)
                /\ \A k \in 1..(Len(line.slurs) - 1) :
                     line.slurs[k][2] < line.slurs[k + 1][2]
                /\ \A k \in 1..Len(line.slurs) :
                     line.slurs[k][1] < line.slurs[k][2])
    /\ (pc = "merge_raised" /\ err = "ValueError: start note of slur not found")
         => Startless(Flatten(melody), lyrics) # {}
    /\ (/\ pc \in {"merged", "merge_raised"}
        /\ ~StartsWithSlur(lyrics)
        /\ Startless(Flatten(melody), lyrics) # {}
        /\ \A q \in 1..(Min(Startless(Flatten(melody), lyrics)) - 1) :
             ~FailsAt(Flatten(melody), lyrics, q)
        /\ may_start_new_line(Flatten(melody)[1]))
         => (pc = "merge_raised" /\ err = "ValueError: start note of slur not found")

\* two slurs in one line, the second after a new start
C23_Witness ==
    /\ pc = "merged"
    /\ \E i \in 1..Len(AllLines(sections)) :
         /\ Len(AllLines(sections)[i].slurs) = 2
         /\ AllLines(sections)[i].slurs[1][2] < AllLines(sections)[i].slurs[2][1]

\* a run whose start was cleared by a rest makes the call fail
C23_WitnessStartless ==
    /\ pc = "merge_raised"
    /\ err = "ValueError: start note of slur not found"
    /\ \E p \in Startless(Flatten(melody), lyrics) :
         \E r \in 2..(p - 1) : is_rest(Flatten(melody)[r])

(***************************************************************************)
(* Specification SpecDepths: load_song on a melody of notes with no, one   *)
(* and two underlines, a lyrics file of one or two lines, then             *)
(* merge_melody_lyrics and group_underlines.                               *)
(***************************************************************************)
MaxDepthItems == 4

\* '1', '1_', '1='
DepthTokens ==
    {Plain("1", 0, 0, 0, FALSE, FALSE), Plain("1", 0, 1, 0, FALSE, FALSE),
     Plain("1", 0, 2, 0, FALSE, FALSE)}

DepthTimes == {Time(Some(2), 4, None), Time(Some(6), 8, None)}

DepthFiles ==
    {<<TagLine("A"), TextLine(Chars(n))>> : n \in 1..4}
    \cup {<<TagLine("A"), TextLine(Chars(q[1])), TextLine(Chars(q[2]))>> :
            q \in {r \in (1..3) \X (1..3) : r[1] + r[2] <= 4}}

LoadDepthMelody ==
    \E t \in DepthTimes, s \in Texts(DepthTokens, MaxDepthItems) :
      AppendTimeSignature(t, s)

LoadDepthLyrics == \E file \in DepthFiles : LoadLyrics(file)

NextDepths ==
    \/ LoadDepthMelody
    \/ MakeTiesConsistent
    \/ TrySplitNotes
    \/ LoadDepthLyrics
    \/ MergeMelodyLyrics
    \/ GroupUnderlines

SpecDepths == InitSong /\ [][NextDepths]_vars

\* the indices, counted from 0, of the NOTE nodes of a line
NoteIdxs(line) == {i \in 0..(Len(line.nodes) - 1) : line.nodes[i + 1].type = "NOTE"}

\* the bar of the line that holds node i
BarOfNode(line, i) ==
    CHOOSE b \in 1..Len(line.bars) :
      \E j \in 1..Len(line.bars[b].idx) : line.bars[b].idx[j] = i

\* the number of underlines of the note node i
DepthOfNode(line, i) ==
    IF Val(line.nodes[i + 1].lines) < 0 THEN -Val(line.nodes[i + 1].lines) ELSE 0

\* the beat at which the note node i starts
BeatOfNode(line, i) ==
    FAdd(line.bars[BarOfNode(line, i)].beat,
         SumOver(LAMBDA j : Val(line.nodes[j + 1].value).duration,
                 {j \in NoteIdxs(line) :
                    j < i /\ BarOfNode(line, j) = BarOfNode(line, i)}))

\* the note node i starts on a beat-group boundary: a multiple of 1 beat for
\* lower = 4, of 3/2 beat for lower = 8
OnGroupBoundary(line, i) ==
    FMod(BeatOfNode(line, i),
         IF line.bars[BarOfNode(line, i)].time.lower = 4 THEN FInt(1)
         ELSE Fraction(3, 2)) = FInt(0)

\* the note nodes before node i in its bar
EarlierInBar(line, i) ==
    {j \in NoteIdxs(line) : j < i /\ BarOfNode(line, j) = BarOfNode(line, i)}

\* the note node i extends the last range of depth k: it has at least k
\* underlines, does not start on a boundary, and the note node before it in
\* its bar has at least k underlines, so that it ends the last range
Extends(line, k, i) ==
    /\ DepthOfNode(line, i) >= k
    /\ ~OnGroupBoundary(line, i)
    /\ EarlierInBar(line, i) # {}
    /\ DepthOfNode(line, Max(EarlierInBar(line, i))) >= k

\* the ranges of depth k the claim gives a line
ClaimedRanges(line, k) ==
    {r \in NoteIdxs(line) \X NoteIdxs(line) :
       /\ r[1] <= r[2]
       /\ DepthOfNode(line, r[1]) >= k
       /\ ~Extends(line, k, r[1])
       /\ \A j \in NoteIdxs(line) : (r[1] < j /\ j <= r[2]) => Extends(line, k, j)
       /\ \A j \in NoteIdxs(line) :
            (j > r[2] /\ \A m \in NoteIdxs(line) : ~(r[2] < m /\ m < j))
              => ~Extends(line, k, j)}

\* the ranges of depth k of a grouped line
RangesAt(line, k) ==
    IF k <= Len(line.underlines_list) THEN line.underlines_list[k] ELSE <<>>

\* C24: after group_underlines the ranges of every depth k >= 1 of a line are
\* those the rule gives (a note with at least k underlines extends the last
\* range of depth k exactly when it does not start on a beat-group boundary
\* and the note node before it in its bar ends that range, and starts a new
\* range otherwise), in order; ranges of one depth are disjoint, no range
\* spans a bar line, and every range of depth k + 1 lies inside a range of
\* depth k.
C24_UnderlineRanges ==
    pc = "grouped" =>
      \A n \in 1..Len(AllLines(sections)) :
      \A k \in 1..(Len(AllLines(sections)[n].underlines_list) + 1) :
        Let(AllLines(sections)[n], LAMBDA line :
          Let(RangesAt(line, k), LAMBDA rs :
            /\ \A i \in NoteIdxs(line) :
                 DepthOfNode(line, i) <= Len(line.underlines_list)
            /\ {rs[x] : x \in 1..Len(rs)} = ClaimedRanges(line, k)
            /\ \A x \in 1..(Len(rs) - 1) : rs[x][2] < rs[x + 1][1]
            /\ \A x \in 1..Len(rs) :
                 /\ rs[x][1] <= rs[x][2]
                 /\ BarOfNode(line, rs[x][1]) = BarOfNode(line, rs[x][2])
                 /\ k > 1 =>
                      \E y \in 1..Len(RangesAt(line, k - 1)) :
                        /\ RangesAt(line, k - 1)[y][1] <= rs[x][1]
                        /\ rs[x][2] <= RangesAt(line, k - 1)[y][2]))

\* a range of depth 2 strictly inside a range of depth 1, and a note with an
\* underline that starts a new range on a boundary after an underlined note
C24_Witness ==
    /\ pc = "grouped"
    /\ \E n \in 1..Len(AllLines(sections)) :
         Let(AllLines(sections)[n], LAMBDA line :
           /\ \E x \in 1..Len(RangesAt(line, 2)), y \in 1..Len(RangesAt(line, 1)) :
                /\ RangesAt(line, 1)[y][1] < RangesAt(line, 2)[x][1]
                /\ RangesAt(line, 2)[x][1] < RangesAt(line, 2)[x][2]
                /\ RangesAt(line, 2)[x][2] <= RangesAt(line, 1)[y][2]
           /\ \E i \in NoteIdxs(line) :
                /\ DepthOfNode(line, i) >= 1
                /\ OnGroupBoundary(line, i)
                /\ EarlierInBar(line, i) # {}
                /\ DepthOfNode(line, Max(EarlierInBar(line, i))) >= 1)

(***************************************************************************)
(* _calc_distance on the same curves listed in another order.              *)
(***************************************************************************)
\* the list _save_line passes: ties, then slurs, then triplets
CurveList ==
    [i \in 1..Len(arg.ties) |-> Curve(arg.ties[i])]
    \o [i \in 1..Len(arg.slurs) |-> Curve(arg.slurs[i])]
    \o [i \in 1..Len(arg.triplets) |-> Curve(arg.triplets[i])]

\* the orders in which a list of n curves can be passed
Orders(n) == {f \in [1..n -> 1..n] : \A i, j \in 1..n : f[i] = f[j] => i = j}

\* the orders of the places S among themselves
OrdersOf(S) == {f \in [S -> S] : \A i, j \in S : f[i] = f[j] => i = j}

\* the orders that leave every place to a curve of the same kind, so that
\* ties come first and triplets last
KindOrders(curves) ==
    {[i \in 1..Len(curves) |->
        IF curves[i].range.kind = "Tie" THEN ft[i]
        ELSE IF curves[i].range.kind = "Slur" THEN fs[i] ELSE fr[i]] :
       ft \in OrdersOf({i \in 1..Len(curves) : curves[i].range.kind = "Tie"}),
       fs \in OrdersOf({i \in 1..Len(curves) : curves[i].range.kind = "Slur"}),
       fr \in OrdersOf({i \in 1..Len(curves) : curves[i].range.kind = "Triplet"})}

\* what a call has done: that it failed, or the curves with their marks
Outcome(r) ==
    IF r.err # "none" THEN {"fails"}
    ELSE {r.curves[i] : i \in 1..Len(r.curves)}

\* the outcome of _calc_distance on the curves listed in the order f
OutcomeIn(f) ==
    Outcome(_calc_distance([i \in 1..Len(CurveList) |-> CurveList[f[i]]], arg.nodes))

MaxRestItems == 3

\* '1' and '0', each with and without a tie mark before and after it
RestTokens ==
    {Plain(name, 0, 0, 0, t0, t1) :
       name \in {"1", "0"}, t0 \in BOOLEAN, t1 \in BOOLEAN}

RestTimes == {Time(Some(2), 4, None), Time(Some(2), 4, Some(4))}

RestFiles == {<<TagLine("A"), TextLine(Chars(n))>> : n \in 1..3}

LoadRestMelody ==
    \E t \in RestTimes, s \in Texts(RestTokens, MaxRestItems) :
      AppendTimeSignature(t, s)

LoadRestLyrics == \E file \in RestFiles : LoadLyrics(file)

NextRests ==
    \/ LoadRestMelody
    \/ MakeTiesConsistent
    \/ TrySplitNotes
    \/ LoadRestLyrics
    \/ MergeMelodyLyrics

SpecRests == InitSong /\ [][NextRests]_vars

\* the note a node of a line holds, by its index counted from 0
NoteAt(line, i) == Val(line.nodes[i + 1].value)

\* C26 as claimed: in the output of merge_melody_lyrics no tie starts or
\* ends at a rest and no rest has a tie flag set.
C26_NoTiesAtRests ==
    pc = "merged" =>
      \A n \in 1..Len(AllLines(sections)) :
        Let(AllLines(sections)[n], LAMBDA line :
          /\ \A k \in 1..Len(line.ties) :
               /\ ~is_rest(NoteAt(line, line.ties[k][1]))
               /\ ~is_rest(NoteAt(line, line.ties[k][2]))
          /\ \A i \in NoteIdxs(line) :
               is_rest(NoteAt(line, i)) => NoteAt(line, i).tie = Tie(FALSE, FALSE))

(***************************************************************************)
(* Specification SpecCursor: load_song on a melody of notes and rests to   *)
(* match lyrics of one, three and five units, which bar lines and          *)
(* split_note cut in pieces, and a lyrics file of one line, then           *)
(* merge_melody_lyrics.                                                    *)
(***************************************************************************)
MaxCursorItems == 2

CursorDashes == {0, 2, 4}

\* '1' and 'O' with no, two and four dashes
CursorTokens ==
    {Plain(name, d, 0, 0, FALSE, FALSE) : name \in {"1", "O"}, d \in CursorDashes}

CursorTimes == {Time(Some(2), 4, Some(4)), Time(Some(6), 8, Some(8))}

CursorFiles ==
    {<<TagLine("A"), TextLine(l)>> : l \in SeqsUpTo({"a", "O"}, 3) \ {<<>>}}

LoadCursorMelody ==
    \E t \in CursorTimes, s \in Texts(CursorTokens, MaxCursorItems) :
      AppendTimeSignature(t, s)

LoadCursorLyrics == \E file \in CursorFiles : LoadLyrics(file)

NextCursor ==
    \/ LoadCursorMelody
    \/ MakeTiesConsistent
    \/ TrySplitNotes
    \/ LoadCursorLyrics
    \/ MergeMelodyLyrics

SpecCursor == InitSong /\ [][NextCursor]_vars

\* the written tokens of a text of the given names that are not written
\* tied-from-previous
WrittenTokens(text, names) ==
    SelectSeq(text, LAMBDA tok :
      tok # BarLine /\ tok.pitches[1].name \in names /\ ~tok.tie0)

\* the notes of the melody that advance the lyric cursor and are rests
ConsumingRests(mel) ==
    SelectSeq(Flatten(mel), LAMBDA nt : to_match_lyrics(nt) /\ is_rest(nt))

\* the notes of the melody that advance the lyric cursor and are no rests
ConsumingDegrees(mel) ==
    SelectSeq(Flatten(mel), LAMBDA nt : to_match_lyrics(nt) /\ ~is_rest(nt))

\* every written degree advances the lyric cursor once, however it is cut
DegreesConsumeOnce ==
    pc = "merged" =>
      Len(ConsumingDegrees(melody)) = Len(WrittenTokens(arg.text, {"1"}))

\* C27 as claimed: when merge_melody_lyrics returns, the lyric cursor has
\* advanced once for every written degree and once for every written rest to
\* match lyrics, however many pieces they were cut into; of the pieces of a
\* rest to match lyrics only the leading one is a rest to match lyrics.
C27_CursorOncePerToken ==
    pc = "merged" =>
      /\ Len(all_lyrics(lyrics))
           = Len(WrittenTokens(arg.text, {"1", "O"}))
      /\ Len(ConsumingDegrees(melody)) = Len(WrittenTokens(arg.text, {"1"}))
      /\ Len(ConsumingRests(melody)) = Len(WrittenTokens(arg.text, {"O"}))

(***************************************************************************)
(* Specification SpecNodes: load_song on a melody of written and bracketed *)
(* notations, with and without hyphen, and a lyrics file of one line, then *)
(* merge_melody_lyrics.                                                    *)
(***************************************************************************)
MaxNodeItems == 3

\* '1', '1-', '[1]-', '[1].', '[1]_' and '[1]_/3'
NodeTokens ==
    {Plain("1", 0, 0, 0, FALSE, FALSE), Plain("1", 1, 0, 0, FALSE, FALSE),
     Bracketed("1", 1, 0, 0, FALSE, FALSE), Bracketed("1", 0, 0, 1, FALSE, FALSE),
     Bracketed("1", 0, 1, 0, FALSE, FALSE),
     Token(FALSE, <<Pitch("", "1", <<>>)>>, TRUE, 0, 1, 0, TRUE, FALSE)}

NodeTimes == {Time(Some(2), 4, None), Time(Some(2), 4, Some(4))}

NodeFiles == {<<TagLine("A"), TextLine(l)>> : l \in SeqsUpTo({"a"}, 3) \ {<<>>}}

LoadNodeMelody ==
    \E t \in NodeTimes, s \in Texts(NodeTokens, MaxNodeItems) :
      AppendTimeSignature(t, s)

LoadNodeLyrics == \E file \in NodeFiles : LoadLyrics(file)

NextNodes ==
    \/ LoadNodeMelody
    \/ MakeTiesConsistent
    \/ TrySplitNotes
    \/ LoadNodeLyrics
    \/ MergeMelodyLyrics

SpecNodes == InitSong /\ [][NextNodes]_vars

\* the duration the resolved notation (lines, dots) of a node denotes
ResolvedDuration(lines, dots, triplet) ==
    IF lines > 0 THEN NotationDuration(lines, 0, dots, triplet)
    ELSE NotationDuration(0, -lines, dots, triplet)

\* the written tokens of a text, bar lines left out
NoteTokens(text) == SelectSeq(text, LAMBDA tok : tok # BarLine)

\* for every piece of the runs, whether its written token is a triplet
RECURSIVE PieceTriplets(_, _)
PieceTriplets(toks, runs) ==
    IF runs = <<>> THEN <<>>
    ELSE [j \in 1..Len(Head(runs)) |-> Head(toks).triplet]
           \o PieceTriplets(Tail(toks), Tail(runs))

\* whether the written token of every note of the melody is a triplet
MelodyTriplets ==
    PieceTriplets(NoteTokens(arg.text),
                  GroupPieces(BarNotes(key, melody[1].time, NoteTokens(arg.text)).notes,
                              Flatten(melody)))

\* the nodes of all lines, one after another
RECURSIVE JoinNodes(_)
JoinNodes(lines) ==
    IF lines = <<>> THEN <<>> ELSE Head(lines).nodes \o JoinNodes(Tail(lines))

\* the note nodes of all lines
NoteNodes(secs) == SelectSeq(JoinNodes(AllLines(secs)), LAMBDA nd : nd.type = "NOTE")

\* node i of nodes is followed by dashes dash nodes and dots dot nodes, and
\* by no dash or dot node more
FollowedBy(nodes, i, dashes, dots) ==
    /\ i + dashes + dots <= Len(nodes)
    /\ \A j \in 1..dashes : nodes[i + j].type = "DASH"
    /\ \A j \in 1..dots : nodes[i + dashes + j].type = "DOT"
    /\ i + dashes + dots < Len(nodes) => nodes[i + dashes + dots + 1].type = "NOTE"

\* C28 as claimed: every note node of the output of merge_melody_lyrics has
\* lines and dots, they denote the duration of its note (times 2/3 when the
\* note was written as a triplet), and the node is followed by one dash node
\* per dash and one dot node per dot; notes cut at a bar boundary included.
C28_NotationDenotesDuration ==
    pc = "merged" =>
      /\ Len(NoteNodes(sections)) = Len(MelodyTriplets)
      /\ \A k \in 1..Len(NoteNodes(sections)) :
           Let(NoteNodes(sections)[k], LAMBDA nd :
             /\ nd.lines # None /\ nd.dots # None
             /\ Val(nd.value).duration
                  = ResolvedDuration(Val(nd.lines), Val(nd.dots), MelodyTriplets[k]))
      /\ \A l \in 1..Len(AllLines(sections)) :
           Let(AllLines(sections)[l].nodes, LAMBDA nodes :
             \A i \in 1..Len(nodes) :
               nodes[i].type = "NOTE" =>
                 FollowedBy(nodes, i,
                            IF Val(nodes[i].lines) > 0 THEN Val(nodes[i].lines) ELSE 0,
                            Val(nodes[i].dots)))

\* the nodes are laid out as their resolved notation says
NodesLaidOut ==
    pc = "merged" =>
      \A l \in 1..Len(AllLines(sections)) :
        Let(AllLines(sections)[l].nodes, LAMBDA nodes :
          \A i \in 1..Len(nodes) :
            nodes[i].type = "NOTE" =>
              /\ nodes[i].lines # None /\ nodes[i].dots # None
              /\ FollowedBy(nodes, i,
                            IF Val(nodes[i].lines) > 0 THEN Val(nodes[i].lines) ELSE 0,
                            Val(nodes[i].dots)))

\* a note node that holds the whole of a written note
WholeNote(nt) == ~nt.tie[0] /\ ~nt.tie[1]

\* the resolved notation of a note node that was not cut denotes its duration
UncutDenotesDuration ==
    pc = "merged" =>
      /\ Len(NoteNodes(sections)) = Len(MelodyTriplets)
      /\ \A k \in 1..Len(NoteNodes(sections)) :
           Let(NoteNodes(sections)[k], LAMBDA nd :
             WholeNote(Val(nd.value)) =>
               Val(nd.value).duration
                 = ResolvedDuration(Val(nd.lines), Val(nd.dots), MelodyTriplets[k]))

(***************************************************************************)
(* Termination of split_note, checked under SpecSplit: the grid position   *)
(* of beat is a variant of the while loop.                                 *)
(***************************************************************************)
\* start_beat + duration, where the while loop stops
NoteEnd == FAdd(start_beat, note.duration)

\* a pass of the while loop either raises 'cannot find ending point' or adds
\* one piece that ends after the current beat and not after the note's end,
\* at a later grid position
SplitProgress ==
    (pc = "while" /\ FLt(beat, NoteEnd)) =>
      \/ /\ pc' = "raised"
         /\ err' = "ValueError: cannot find ending point"
      \/ /\ pc' = "while"
         /\ FLt(beat, beat') /\ FLe(beat', NoteEnd)
         /\ GridPos(time, beat) < GridPos(time, beat')
         /\ GridPos(time, beat') <= GridPos(time, NoteEnd)
         /\ Len(subnotes') = Len(subnotes) + 1

\* C29: for every meter with a hyphen grid, every start beat and positive
\* duration inside a bar, each pass of the loop of split_note raises 'cannot
\* find ending point' or chooses an end after the current beat and not after
\* the note's end, so the passes are at most the grid steps between the start
\* and the note's end and the call returns or raises; no pass reads outside
\* the possible_ends tables.
C29_SplitTerminates ==
    /\ [][SplitProgress]_vars
    /\ [](err # "IndexError")
    /\ [](pc = "while" =>
            Len(subnotes) <= GridPos(time, NoteEnd) - GridPos(time, start_beat))

\* a call that raised 'cannot find ending point' after two passes
C29_Witness ==
    /\ pc = "raised"
    /\ err = "ValueError: cannot find ending point"
    /\ Len(subnotes) >= 2

(***************************************************************************)
(* The keys parse_key returns, checked under SpecPitch.                    *)
(***************************************************************************)
\* the order in which sharps (x = 1: F C G D A E B) and flats (x = -1:
\* B E A D G C F) are added along the circle of fifths, as degrees of C
FifthsOrder(x) == IF x = 1 THEN <<4, 1, 5, 2, 6, 3, 7>> ELSE <<7, 3, 6, 2, 5, 1, 4>>

\* the tonic n fifths above (x = 1) or below (x = -1) C, as a degree of C
RECURSIVE FifthsFromC(_, _)
FifthsFromC(n, x) ==
    IF n = 0 THEN 1
    ELSE ((FifthsFromC(n - 1, x) - 1 + (IF x = 1 THEN 4 ELSE 3)) % 7) + 1

\* the key (tonic, accidental, table) is the key of n sharps or n flats
KeyOfFifths(k, n, x) ==
    /\ k[1] = FifthsFromC(n, x)
    /\ {i \in 1..7 : k[3][i] # 0} = {FifthsOrder(x)[j] : j \in 1..n}
    /\ \A i \in 1..7 : k[3][i] \in {0, x}
    /\ k[3][k[1]] = k[2]

\* parse_key has run on a key string other than 'solfa'
KeyParsed ==
    /\ pc \in {"pitch", "key_raised"}
    /\ arg.key # None
    /\ Val(arg.key) # <<"s", "o", "l", "f", "a">>

KeyFormatErrors == {"ValueError: empty key", "ValueError: wrong format for <key>"}

\* every key parse_key returns with a signature table is a key of the circle
\* of fifths
TablesFollowFifths ==
    (KeyParsed /\ pc = "pitch" /\ Len(key.tuple) = 3) =>
      /\ key.tuple[1] \in 1..7
      /\ key.tuple[2] \in {-1, 0, 1}
      /\ \E n \in 0..7, x \in {-1, 1} : KeyOfFifths(key.tuple, n, x)

\* C30 as claimed: on a key string other than 'solfa', parse_key returns a
\* movable key with tonic in 1..7, accidental in {-1, 0, 1} and the signature
\* table of a key of n sharps or n flats of the circle of fifths, or raises
\* the format error; it returns no key without a table and raises nothing
\* else.
C30_TableKeyOrFormatError ==
    KeyParsed =>
      \/ /\ pc = "pitch"
         /\ ~key.solfa
         /\ Len(key.tuple) = 3
         /\ key.tuple[1] \in 1..7
         /\ key.tuple[2] \in {-1, 0, 1}
         /\ \E n \in 0..7, x \in {-1, 1} : KeyOfFifths(key.tuple, n, x)
      \/ pc = "key_raised" /\ err \in KeyFormatErrors

====
